---- MODULE Spec2Model ----
(***************************************************************************)
(* A model of the AI captcha solver extension: the coordinator's           *)
(* ApiManager (recognize with timeout, retry and backoff, testConnection), *)
(* the page controller's request handlers with the capture strategy, and   *)
(* the CaptchaDetector's scan and ranking.                                 *)
(***************************************************************************)
EXTENDS Integers, Sequences, FiniteSets, TLC

(***************************************************************************)
(* Bounds of the model.                                                    *)
(***************************************************************************)
\* the largest retryCount a stored setting holds
MaxRetry == 3
\* the largest number of elements of a document whose elements all pass the
\* size and visibility tests
MaxElems == 2
\* the longest text a fill request types
MaxText == 3

(***************************************************************************)
(* Program constants.                                                      *)
(***************************************************************************)
BackoffBaseMs == 1000
TestConnectionTimeoutMs == 30000
DefaultTimeoutMs == 30000
MinImageDataLength == 100
\* CAPTCHA_PATTERNS.sizeRange
MinWidth == 50
MaxWidth == 300
MinHeight == 20
MaxHeight == 100
\* the weights of calculateConfidence
KeywordWeight == 30
SrcWeight == 20
ParentWeight == 15
InputWeight == 25
SizeWeight == 10
MaxConfidence == 100

\* the sequences over S of length up to n
SeqsUpTo(S, n) == UNION {[1..m -> S] : m \in 0..n}

ApiTypes == {"openai_compatible", "gemini", "claude"}

\* the per-attempt timeouts a user can have stored (options page, seconds * 1000)
UserTimeouts == {10000, DefaultTimeoutMs}

\* settings.retryCount as stored: parseInt of a free text field, so a
\* number (0 included) or not a number at all
RetrySettings ==
    {[isNum |-> TRUE, n |-> k] : k \in 0..MaxRetry} \cup {[isNum |-> FALSE, n |-> 0]}

\* the texts an adapter can resolve with (never empty: an adapter throws instead)
Texts == {"AB3x", "7"}

\* the errors an adapter call rejects with
AdapterErrors == {"Transport", "EmptyResult"}

\* the custom headers a configuration carries at most
MaxHeaders == 1
\* the text inputs of a document at most
MaxInputs == 2
\* the picker sessions started on one page at most
MaxSessions == 2
\* the recognize calls of the coordinator that can overlap
MaxCalls == 3
\* the edits of one stored configuration
MaxEdits == 2
\* the parts of one candidate, the blocks of one message, at most
MaxParts == 2
\* the choices or candidates of one response at most
MaxChoices == 2

VARIABLES
    \* ---- persisted store (external collaborator)
    storedConfig,      \* the active configuration: "none" or its type
    storedRetry,       \* settings.retryCount
    storedTimeout,     \* settings.timeout
    \* ---- message channel page/popup -> coordinator
    bgMsg,             \* the request being handled by the coordinator
    bgResp,            \* the response passed to sendResponse
    \* ---- ApiManager
    adapters,          \* this.adapters: the keys of the cached adapters
    \* ---- one adapter and the HTTP exchange of its recognize
    exchange,          \* the request as sent, then the response as parsed
    \* ---- one call of findRelatedInput on a document
    lookup,            \* the detector, the text inputs, and the input found
    \* ---- the statistics in storage and the calls of updateStats
    stats,             \* the stored object: totalRequests, successCount, failCount
    updates,           \* of each call of updateStats: where it stands, its
                       \* argument, and the object getStats gave it
    \* ---- the stored configurations and the adapters made for them
    apiConfigs,        \* of each configuration id: its type and its content
    activeId,          \* the id of the active configuration
    adapterCache,      \* ApiManager.adapters: per key, the config of its adapter
    invoked,           \* of the last recognize: the config resolved and the
                       \* config of the adapter invoked
    \* ---- the content script since the page loaded
    popupSeen,         \* a message triggered by the popup has arrived
    loadPc,            \* where the timer callback of init() stands, and the
                       \* rule it is applying
    picker,            \* the element picker loaded and its sessions
    overlapResp,       \* the answer to a recognize message that arrived
                       \* while a recognition was in progress
    rpc,               \* position inside recognize()
    attempt,           \* the loop variable of recognize()
    retryCount,        \* the local retryCount of recognize()
    lastError,         \* the local lastError of recognize()
    error,             \* the error caught by the outer catch of recognize()
    outcome,           \* how recognize() settled
    late,              \* adapter calls abandoned by their timeout, still running
    \* ---- what one recognize() call did (observation)
    getAdapterCalls,   \* calls of getAdapter
    adapterCalls,      \* calls of adapter.recognize
    results,           \* how each awaited attempt settled, in order
    delays,            \* the backoff waits begun, in ms, in order
    delaysElapsed,     \* the backoff waits that elapsed
    statsUpdates,      \* calls of storage.updateStats
    historyAppends,    \* calls of storage.addHistory
    \* ---- ApiManager.testConnection
    tpc,               \* position inside testConnection()
    tcCalls,           \* calls of adapter.testConnection in this call
    tcTimer,           \* the timeout the call was wrapped in (0: none)
    tcOutcome,         \* how testConnection() settled
    \* ---- the page
    doc,               \* the document: its img, canvas and svg elements in order
    \* ---- page controller (content script)
    detectedCaptchas,  \* detector.detectedCaptchas
    currentCaptcha,    \* currentCaptcha
    isProcessing,      \* isProcessing
    pageReq,           \* the request of the popup being handled
    pageResp,          \* the response passed to sendResponse
    ppc,               \* position inside handleRecognize
    typed,             \* characters typed so far by a fill (-1: no fill)
    \* ---- what the scans did (observation)
    scanReturns,       \* what the last two scans returned, oldest first
    \* ---- the capture in progress
    impl,              \* the CaptchaDetector loaded: "bundle" or "module"
    elemState,         \* the candidate's element: "ok", "detached", "zeroArea"
    cap,               \* the last captureImage call and how it settled
    fetches,           \* network requests the capture issued for the source
    urlsCreated,       \* URL.createObjectURL calls of the capture
    urlsRevoked,       \* URL.revokeObjectURL calls of the capture
    \* ---- the input a fill acts on
    fillRun,           \* the last call of fill: its arguments and its return
    events,            \* what that call did to the input, in order
    inputValue         \* the value of the input

cacheVars == <<apiConfigs, activeId, adapterCache, invoked>>
layerVars == <<exchange, lookup, stats, updates, cacheVars>>

bgVars == <<storedConfig, storedRetry, storedTimeout, layerVars, popupSeen, bgMsg, bgResp,
            adapters,
            rpc, attempt, retryCount, lastError, error, outcome, late,
            getAdapterCalls, adapterCalls, results, delays, delaysElapsed,
            statsUpdates, historyAppends, tpc, tcCalls, tcTimer, tcOutcome>>

scanHist == <<scanReturns>>
implVars == <<impl, loadPc, picker, overlapResp>>
capVars == <<implVars, elemState, cap, fetches, urlsCreated, urlsRevoked>>
fillVars == <<fillRun, events, inputValue>>

pageVars == <<doc, detectedCaptchas, currentCaptcha, isProcessing, pageReq,
              pageResp, ppc, typed, scanHist, capVars, fillVars>>

vars == <<bgVars, pageVars>>

recVars == <<rpc, attempt, retryCount, lastError, error, outcome,
             getAdapterCalls, adapterCalls, results, delays, delaysElapsed,
             statsUpdates, historyAppends>>
tcVars == <<tpc, tcCalls, tcTimer, tcOutcome>>
storeVars == <<storedConfig, storedRetry, storedTimeout, layerVars, popupSeen>>

(***************************************************************************)
(* Values.                                                                 *)
(***************************************************************************)
NoOutcome == [kind |-> "none", text |-> "", error |-> "", attempt |-> 0]
SuccessOutcome(t, a) == [kind |-> "success", text |-> t, error |-> "", attempt |-> a]
FailureOutcome(e) == [kind |-> "failure", text |-> "", error |-> e, attempt |-> 0]
\* the promise returned by an async function rejected with e
Rejected(e) == [kind |-> "rejected", text |-> "", error |-> e, attempt |-> 0]

\* an attempt's settlement, as recorded in results
Ok(t) == [ok |-> TRUE, val |-> t]
Failed(e) == [ok |-> FALSE, val |-> e]

NoMsg == [action |-> "none", imageLen |-> 0, config |-> "none"]
RecognizeMsg(len) == [action |-> "recognizeCaptcha", imageLen |-> len, config |-> "none"]
TestMsg(cfg) == [action |-> "testConnection", imageLen |-> 0, config |-> cfg]

\* sendResponse(result) of the coordinator's handlers; a rejected call is
\* answered by handleMessage's catch with {success: false, error: error.message}
ResponseOf(o) == IF o.kind = "rejected" THEN FailureOutcome(o.error) ELSE o

(***************************************************************************)
(* ApiManager.recognize                                                    *)
(***************************************************************************)
\* for (let attempt = 0; attempt < retryCount; attempt++): the loop test.
\* A retryCount that is not a number compares false with every attempt.
LoopRuns(att, rc) == rc.isNum /\ att < rc.n

\* if (attempt < retryCount - 1): another attempt follows this one
MoreAttempts(att, rc) == rc.isNum /\ att < rc.n - 1

\* await this.delay(1000 * (attempt + 1))
BackoffMs(att) == BackoffBaseMs * (att + 1)

\* the mutant of AfterCatchPc: this.delay(...) without its await
AfterCatchPc_NoAwait == "loop"

\* where recognize() stands after its catch started the backoff timer
AfterCatchPc == "delay"

\* const key = config.id || config.type
AdapterKey(cfg) == cfg

\* getAdapter(config): the cache after the call
GetAdapter(cache, cfg) == cache \cup {AdapterKey(cfg)}

\* recognize() settles with o; handleRecognizeCaptcha passes it to sendResponse
Settle(o) ==
    /\ outcome' = o
    /\ rpc' = "done"
    /\ bgResp' = ResponseOf(o)
    /\ bgMsg' = NoMsg

\* the catch of the retry loop, for an error e thrown inside the loop's try
CatchAttempt(e) ==
    /\ lastError' = e
    /\ IF MoreAttempts(attempt, retryCount)
       THEN /\ delays' = Append(delays, BackoffMs(attempt))
            /\ rpc' = AfterCatchPc
            /\ UNCHANGED <<attempt, error>>
       ELSE \* attempt++ ends the loop: throw lastError, caught by the outer catch
            /\ attempt' = attempt + 1
            /\ error' = e
            /\ rpc' = "updateStatsFail"
            /\ UNCHANGED delays

\* handleRecognizeCaptcha: the coordinator receives an image payload
handleRecognizeCaptcha ==
    /\ bgMsg.action = "recognizeCaptcha"
    /\ rpc \in {"idle", "done"}
    /\ bgResp.kind = "none"
    /\ IF bgMsg.imageLen = 0
       THEN \* if (!imageData): answered without calling the ApiManager
            /\ bgResp' = FailureOutcome("MissingImageData")
            /\ bgMsg' = NoMsg
            /\ UNCHANGED <<recVars>>
       ELSE \* apiManager.recognize(imageData) runs to its first await
            /\ rpc' = "getActiveConfig"
            /\ attempt' = 0
            /\ retryCount' = [isNum |-> FALSE, n |-> 0]
            /\ lastError' = "null"
            /\ error' = "null"
            /\ outcome' = NoOutcome
            /\ getAdapterCalls' = 0
            /\ adapterCalls' = 0
            /\ results' = <<>>
            /\ delays' = <<>>
            /\ delaysElapsed' = 0
            /\ statsUpdates' = 0
            /\ historyAppends' = 0
            /\ UNCHANGED <<bgMsg, bgResp>>
    /\ UNCHANGED <<pageVars, storeVars, adapters, late, tcVars>>

\* const config = await storage.getActiveConfig(); if (!config) throw
recognize_getActiveConfig ==
    /\ rpc = "getActiveConfig"
    /\ IF storedConfig = "none"
       THEN /\ error' = "NotConfigured"
            /\ rpc' = "updateStatsFail"
       ELSE /\ rpc' = "getSettings"
            /\ UNCHANGED error
    /\ UNCHANGED <<pageVars, storeVars, bgMsg, bgResp, adapters, attempt, retryCount,
                   lastError, outcome, late, getAdapterCalls, adapterCalls,
                   results, delays, delaysElapsed, statsUpdates,
                   historyAppends, tcVars>>

\* settings = await storage.getSettings(); getAdapter(config); the first
\* evaluation of the loop test; the first adapter.recognize call
recognize_getSettings ==
    /\ rpc = "getSettings"
    /\ retryCount' = storedRetry
    /\ adapters' = GetAdapter(adapters, storedConfig)
    /\ getAdapterCalls' = getAdapterCalls + 1
    /\ lastError' = "null"
    /\ attempt' = 0
    /\ IF LoopRuns(0, storedRetry)
       THEN /\ adapterCalls' = adapterCalls + 1
            /\ rpc' = "await"
            /\ UNCHANGED error
       ELSE \* throw lastError with lastError still null
            /\ error' = "null"
            /\ rpc' = "updateStatsFail"
            /\ UNCHANGED adapterCalls
    /\ UNCHANGED <<pageVars, storeVars, bgMsg, bgResp, outcome, late, results, delays,
                   delaysElapsed, statsUpdates, historyAppends, tcVars>>

\* executeWithTimeout: the adapter's promise resolves before the timer
adapter_resolves ==
    /\ rpc = "await"
    /\ \E t \in Texts : results' = Append(results, Ok(t))
    /\ rpc' = "updateStatsOk"
    /\ UNCHANGED <<pageVars, storeVars, bgMsg, bgResp, adapters, attempt, retryCount,
                   lastError, error, outcome, late, getAdapterCalls,
                   adapterCalls, delays, delaysElapsed, statsUpdates,
                   historyAppends, tcVars>>

\* executeWithTimeout: the adapter's promise rejects before the timer
adapter_rejects ==
    /\ rpc = "await"
    /\ \E e \in AdapterErrors :
         /\ results' = Append(results, Failed(e))
         /\ CatchAttempt(e)
    /\ UNCHANGED <<pageVars, storeVars, bgMsg, bgResp, adapters, retryCount, outcome,
                   late, getAdapterCalls, adapterCalls, delaysElapsed,
                   statsUpdates, historyAppends, tcVars>>

\* executeWithTimeout: the timer fires first; the adapter call is not
\* cancelled, only its result is ignored
timeout_fires ==
    /\ rpc = "await"
    /\ results' = Append(results, Failed("Timeout"))
    /\ late' = late + 1
    /\ CatchAttempt("Timeout")
    /\ UNCHANGED <<pageVars, storeVars, bgMsg, bgResp, adapters, retryCount, outcome,
                   getAdapterCalls, adapterCalls, delaysElapsed,
                   statsUpdates, historyAppends, tcVars>>

\* an adapter call abandoned by its timeout settles: resolve/reject of the
\* settled wrapper promise and clearTimeout of the fired timer do nothing
late_adapter_settles ==
    /\ late > 0
    /\ late' = late - 1
    /\ UNCHANGED <<pageVars, storeVars, bgMsg, bgResp, adapters, recVars, tcVars>>

\* the backoff timer fires
delay_elapses ==
    /\ rpc = "delay"
    /\ delaysElapsed' = delaysElapsed + 1
    /\ rpc' = "loop"
    /\ UNCHANGED <<pageVars, storeVars, bgMsg, bgResp, adapters, attempt, retryCount,
                   lastError, error, outcome, late, getAdapterCalls,
                   adapterCalls, results, delays, statsUpdates,
                   historyAppends, tcVars>>

\* attempt++, the loop test, the next adapter.recognize call
recognize_nextAttempt ==
    /\ rpc = "loop"
    /\ attempt' = attempt + 1
    /\ IF LoopRuns(attempt + 1, retryCount)
       THEN /\ adapterCalls' = adapterCalls + 1
            /\ rpc' = "await"
            /\ UNCHANGED error
       ELSE /\ error' = lastError
            /\ rpc' = "updateStatsFail"
            /\ UNCHANGED adapterCalls
    /\ UNCHANGED <<pageVars, storeVars, bgMsg, bgResp, adapters, retryCount, lastError,
                   outcome, late, getAdapterCalls, results, delays,
                   delaysElapsed, statsUpdates, historyAppends, tcVars>>

\* await storage.updateStats(true, elapsed), inside the loop's try
updateStats_success ==
    /\ rpc = "updateStatsOk"
    /\ statsUpdates' = statsUpdates + 1
    /\ \/ /\ rpc' = "addHistoryOk"
          /\ UNCHANGED <<attempt, lastError, error, delays>>
       \/ \* the write throws: caught by the catch of the retry loop
          /\ CatchAttempt("StorageWrite")
    /\ UNCHANGED <<pageVars, storeVars, bgMsg, bgResp, adapters, retryCount, outcome,
                   late, getAdapterCalls, adapterCalls, results,
                   delaysElapsed, historyAppends, tcVars>>

\* await storage.addHistory({... success: true}), then return the outcome
addHistory_success ==
    /\ rpc = "addHistoryOk"
    /\ historyAppends' = historyAppends + 1
    /\ \/ /\ Settle(SuccessOutcome(results[Len(results)].val, attempt + 1))
          /\ UNCHANGED <<attempt, lastError, error, delays>>
       \/ \* the write throws: caught by the catch of the retry loop
          /\ CatchAttempt("StorageWrite")
          /\ UNCHANGED <<outcome, bgResp, bgMsg>>
    /\ UNCHANGED <<pageVars, storeVars, adapters, retryCount, late, getAdapterCalls,
                   adapterCalls, results, delaysElapsed, statsUpdates,
                   tcVars>>

\* outer catch: await storage.updateStats(false, elapsed)
updateStats_failure ==
    /\ rpc = "updateStatsFail"
    /\ statsUpdates' = statsUpdates + 1
    /\ \/ /\ rpc' = "addHistoryFail"
          /\ UNCHANGED <<outcome, bgResp, bgMsg>>
       \/ \* the write throws out of the catch block: recognize() rejects
          /\ Settle(Rejected("StorageWrite"))
    /\ UNCHANGED <<pageVars, storeVars, adapters, attempt, retryCount, lastError, error,
                   late, getAdapterCalls, adapterCalls, results, delays,
                   delaysElapsed, historyAppends, tcVars>>

\* outer catch: await storage.addHistory({..., result: error.message, ...}),
\* then return the failure outcome
addHistory_failure ==
    /\ rpc = "addHistoryFail"
    /\ IF error = "null"
       THEN \* error.message of null: a TypeError while the argument is built
            /\ Settle(Rejected("TypeError"))
            /\ UNCHANGED historyAppends
       ELSE /\ historyAppends' = historyAppends + 1
            /\ \/ Settle(FailureOutcome(error))
               \/ \* the write throws out of the catch block
                  Settle(Rejected("StorageWrite"))
    /\ UNCHANGED <<pageVars, storeVars, adapters, attempt, retryCount, lastError, error,
                   late, getAdapterCalls, adapterCalls, results, delays,
                   delaysElapsed, statsUpdates, tcVars>>

(***************************************************************************)
(* ApiManager.testConnection                                               *)
(***************************************************************************)
\* the mutant of TestTimeout: the user-configured timeout
TestTimeout_UserConfigured == storedTimeout

\* executeWithTimeout(adapter.testConnection(), 30000)
TestTimeout == TestConnectionTimeoutMs

\* testConnection() settles with o; handleTestConnection passes it on
SettleTest(o) ==
    /\ tcOutcome' = o
    /\ tpc' = "done"
    /\ bgResp' = ResponseOf(o)
    /\ bgMsg' = NoMsg

\* handleTestConnection, and apiManager.testConnection(config) to its await
handleTestConnection ==
    /\ bgMsg.action = "testConnection"
    /\ tpc \in {"idle", "done"}
    /\ bgResp.kind = "none"
    /\ IF bgMsg.config = "none"
       THEN \* if (!config): answered without calling the ApiManager
            /\ bgResp' = FailureOutcome("MissingConfig")
            /\ bgMsg' = NoMsg
            /\ UNCHANGED tcVars
       ELSE \/ \* the adapter's constructor throws (no usable baseUrl)
               /\ tcCalls' = 0
               /\ tcTimer' = 0
               /\ SettleTest(FailureOutcome("TypeError"))
            \/ \* adapter.testConnection() is called under the timer
               /\ tcCalls' = 1
               /\ tcTimer' = TestTimeout
               /\ tcOutcome' = NoOutcome
               /\ tpc' = "await"
               /\ UNCHANGED <<bgMsg, bgResp>>
    /\ UNCHANGED <<pageVars, storeVars, adapters, recVars, late>>

testConnection_resolves ==
    /\ tpc = "await"
    /\ SettleTest(SuccessOutcome("connected", 0))
    /\ UNCHANGED <<pageVars, storeVars, adapters, recVars, late, tcCalls, tcTimer>>

testConnection_rejects ==
    /\ tpc = "await"
    /\ \E e \in AdapterErrors : SettleTest(FailureOutcome(e))
    /\ UNCHANGED <<pageVars, storeVars, adapters, recVars, late, tcCalls, tcTimer>>

testConnection_timeout ==
    /\ tpc = "await"
    /\ SettleTest(FailureOutcome("Timeout"))
    /\ late' = late + 1
    /\ UNCHANGED <<pageVars, storeVars, adapters, recVars, tcCalls, tcTimer>>

(***************************************************************************)
(* The coordinator alone: requests arrive over the message channel.        *)
(***************************************************************************)
\* the locals and the observations of the calls that returned are dead
\* once their response was read: the next request starts from a clean slate
ClearCalls ==
    /\ rpc' = "idle"
    /\ attempt' = 0
    /\ retryCount' = [isNum |-> FALSE, n |-> 0]
    /\ lastError' = "null"
    /\ error' = "null"
    /\ outcome' = NoOutcome
    /\ getAdapterCalls' = 0
    /\ adapterCalls' = 0
    /\ results' = <<>>
    /\ delays' = <<>>
    /\ delaysElapsed' = 0
    /\ statsUpdates' = 0
    /\ historyAppends' = 0
    /\ tpc' = "idle"
    /\ tcCalls' = 0
    /\ tcTimer' = 0
    /\ tcOutcome' = NoOutcome

(***************************************************************************)
(* CaptchaDetector                                                         *)
(***************************************************************************)
Tags == {"img", "canvas", "svg"}

\* the rendered sizes around the limits of the size envelope
Widths == {MinWidth - 1, MinWidth, MaxWidth, MaxWidth + 1}
Heights == {MinHeight - 1, MinHeight, MaxHeight, MaxHeight + 1}

\* An element as the detector reads it: its tag, its rendered size, whether
\* its computed style shows it, whether its class or id holds a keyword,
\* whether its src and its alt hold one (an img only: canvas and svg elements
\* have neither property), whether an ancestor within 3 levels holds one, and
\* the input findRelatedInput finds for it (0: null).
ImgElements ==
    [tag : {"img"}, width : Widths, height : Heights, shown : BOOLEAN,
     kw : BOOLEAN, srcKw : BOOLEAN, altKw : BOOLEAN, parentKw : BOOLEAN,
     input : 0..1]
OtherElements ==
    [tag : {"canvas", "svg"}, width : Widths, height : Heights, shown : BOOLEAN,
     kw : BOOLEAN, srcKw : {FALSE}, altKw : {FALSE}, parentKw : BOOLEAN,
     input : 0..1]
Elements == ImgElements \cup OtherElements

\* the mutant of isCaptchaSize: the limits themselves rejected
isCaptchaSize_Strict(width, height) ==
    width > MinWidth /\ width < MaxWidth /\ height > MinHeight /\ height < MaxHeight

isCaptchaSize(width, height) ==
    width >= MinWidth /\ width <= MaxWidth /\ height >= MinHeight /\ height <= MaxHeight

isVisible(el) == el.shown /\ el.width > 0 /\ el.height > 0

\* findRelatedInput(element): the input found, 0 for null
findRelatedInput(el) == el.input

hasNearbyInput(el) == findRelatedInput(el) # 0

\* isLikelyCaptcha, isLikelyCanvasCaptcha, isLikelySvgCaptcha, by tag
isLikelyCaptcha(el) ==
    /\ isCaptchaSize(el.width, el.height)
    /\ isVisible(el)
    /\ IF el.tag = "img"
       THEN el.kw \/ el.srcKw \/ el.altKw \/ el.parentKw \/ hasNearbyInput(el)
       ELSE el.kw \/ el.parentKw \/ hasNearbyInput(el)

calculateConfidence(el) ==
    LET score == (IF el.kw THEN KeywordWeight ELSE 0)
               + (IF el.srcKw THEN SrcWeight ELSE 0)
               + (IF el.parentKw THEN ParentWeight ELSE 0)
               + (IF findRelatedInput(el) # 0 THEN InputWeight ELSE 0)
               + (IF isCaptchaSize(el.width, el.height) THEN SizeWeight ELSE 0)
    IN IF score < MaxConfidence THEN score ELSE MaxConfidence

\* type of the captchaInfo pushed for a tag
TypeOf(tag) == IF tag = "img" THEN "image" ELSE tag

\* the index forEach passes: the element's place among the elements of its
\* tag (querySelectorAll(tag)), from 0
IndexAmongTag(d, i) == Cardinality({j \in 1..(i - 1) : d[j].tag = d[i].tag})

\* the captchaInfo pushed for the element at place i of document d
CaptchaInfo(d, i) ==
    [type |-> TypeOf(d[i].tag),
     element |-> i,
     width |-> d[i].width,
     height |-> d[i].height,
     confidence |-> calculateConfidence(d[i]),
     inputElement |-> findRelatedInput(d[i]),
     id |-> <<d[i].tag, IndexAmongTag(d, i)>>]

NoCaptcha ==
    [type |-> "none", element |-> 0, width |-> 0, height |-> 0,
     confidence |-> 0, inputElement |-> 0, id |-> <<"none", 0>>]

\* scanImages, scanCanvas, scanSvg: the candidates among the elements of one
\* tag from place i on, in document order
RECURSIVE ScanTag(_, _, _)
ScanTag(d, tag, i) ==
    IF i > Len(d) THEN <<>>
    ELSE IF d[i].tag = tag /\ isLikelyCaptcha(d[i])
         THEN <<CaptchaInfo(d, i)>> \o ScanTag(d, tag, i + 1)
         ELSE ScanTag(d, tag, i + 1)

\* the mutant of ResetList: the previous result is kept
ResetList_Keep(prev) == prev

\* scan(): this.detectedCaptchas = []
ResetList(prev) == <<>>

\* scan(): images, then canvases, then svgs
scan(d) == ScanTag(d, "img", 1) \o ScanTag(d, "canvas", 1) \o ScanTag(d, "svg", 1)

\* the mutant of ReduceBest: a later candidate of equal confidence wins
RECURSIVE ReduceBest_LastWins(_, _, _)
ReduceBest_LastWins(list, best, i) ==
    IF i > Len(list) THEN best
    ELSE ReduceBest_LastWins(list,
             IF list[i].confidence >= best.confidence THEN list[i] ELSE best,
             i + 1)

\* reduce((best, current) => current.confidence > best.confidence ? current : best)
RECURSIVE ReduceBest(_, _, _)
ReduceBest(list, best, i) ==
    IF i > Len(list) THEN best
    ELSE ReduceBest(list,
             IF list[i].confidence > best.confidence THEN list[i] ELSE best,
             i + 1)

\* the mutant of getMostLikelyCaptcha: the reduction compares with >=
getMostLikelyCaptcha_LastWins(list) ==
    IF Len(list) = 0 THEN NoCaptcha ELSE ReduceBest_LastWins(list, list[1], 2)

getMostLikelyCaptcha(list) ==
    IF Len(list) = 0 THEN NoCaptcha ELSE ReduceBest(list, list[1], 2)

\* captchas.find(c => c.id === captchaId): the first candidate with that id
RECURSIVE FindById(_, _, _)
FindById(list, id, i) ==
    IF i > Len(list) THEN NoCaptcha
    ELSE IF list[i].id = id THEN list[i] ELSE FindById(list, id, i + 1)


(***************************************************************************)
(* How the detector reads the signals of an element off the DOM            *)
(***************************************************************************)
\* CAPTCHA_PATTERNS; the three-character Chinese keyword is written by its
\* code points
classKeywords ==
    {"captcha", "verify", "code", "vcode", "imgcode", "checkcode", "seccode",
     "authcode", "validcode", "yzm", "yanzhengma", "U+9A8C U+8BC1 U+7801"}
idKeywords ==
    {"captcha", "verify", "code", "vcode", "imgcode", "checkcode", "seccode",
     "authcode", "validcode", "yzm", "captchaImg", "codeImg"}
inputKeywords ==
    {"captcha", "verify", "code", "vcode", "checkcode", "seccode", "authcode",
     "validcode", "yzm", "yanzhengma", "U+9A8C U+8BC1 U+7801"}

\* the mutant of Includes: equality in place of containment
Includes_Equal(str, k) == str = k

\* String.prototype.includes
Includes(str, k) ==
    \E i \in 1..(Len(str) - Len(k) + 1) : SubSeq(str, i, i + Len(k) - 1) = k

LowerChar(c) ==
    CASE c = "A" -> "a" [] c = "B" -> "b" [] c = "C" -> "c" [] c = "D" -> "d"
      [] c = "E" -> "e" [] c = "F" -> "f" [] c = "G" -> "g" [] c = "H" -> "h"
      [] c = "I" -> "i" [] c = "J" -> "j" [] c = "K" -> "k" [] c = "L" -> "l"
      [] c = "M" -> "m" [] c = "N" -> "n" [] c = "O" -> "o" [] c = "P" -> "p"
      [] c = "Q" -> "q" [] c = "R" -> "r" [] c = "S" -> "s" [] c = "T" -> "t"
      [] c = "U" -> "u" [] c = "V" -> "v" [] c = "W" -> "w" [] c = "X" -> "x"
      [] c = "Y" -> "y" [] c = "Z" -> "z" [] OTHER -> c

\* String.prototype.toLowerCase
RECURSIVE toLowerCase(_)
toLowerCase(str) ==
    IF str = "" THEN ""
    ELSE LowerChar(SubSeq(str, 1, 1)) \o toLowerCase(SubSeq(str, 2, Len(str)))

\* matchesKeywords(element): node has an id and a className
matchesKeywords(node) ==
    \/ \E k \in classKeywords : Includes(toLowerCase(node.className), k)
    \/ \E k \in idKeywords : Includes(toLowerCase(node.id), k)

matchesKeywordsInText(text) ==
    text # "" /\ \E k \in classKeywords : Includes(toLowerCase(text), k)

srcContainsKeywords(src) ==
    src # "" /\ \E k \in classKeywords : Includes(toLowerCase(src), k)

\* parentContainsKeywords: the first 3 ancestors, nearest first
parentContainsKeywords(node) ==
    \E d \in 1..Len(node.ancestors) : d <= 3 /\ matchesKeywords(node.ancestors[d])

isCaptchaInputByName(input) ==
    \E k \in inputKeywords :
        \/ Includes(toLowerCase(input.name), k)
        \/ Includes(toLowerCase(input.id), k)
        \/ Includes(toLowerCase(input.placeholder), k)
        \/ Includes(toLowerCase(input.className), k)

\* the least member of a non-empty set of numbers
Least(S) == CHOOSE x \in S : \A y \in S : x <= y

\* findCaptchaInput(container) for the ancestor d levels up: the first text
\* input, in document order, inside it that is named like a captcha input
\* (0: null).  input.depth is the number of levels up from the element to
\* its nearest ancestor holding the input.
findCaptchaInput(inputs, d) ==
    LET hits == {i \in 1..Len(inputs) :
                    inputs[i].depth <= d /\ isCaptchaInputByName(inputs[i])}
    IN IF hits = {} THEN 0 ELSE Least(hits)

Abs(x) == IF x < 0 THEN -x ELSE x

\* findRelatedInput, second loop: the input lies right of or below the
\* element
IsPositioned(node, input) ==
    LET right == node.left + node.width
        bottom == node.top + node.height
    IN \/ /\ input.left > right
          /\ input.left - right < 150
          /\ Abs(input.top - node.top) < 50
       \/ /\ input.top > bottom
          /\ input.top - bottom < 100
          /\ Abs(input.left - node.left) < 100

\* findRelatedInput on the DOM: up to 5 ancestors, then by position
RelatedInput(node, inputs) ==
    LET levels == {d \in 1..5 : d <= Len(node.ancestors)
                                   /\ findCaptchaInput(inputs, d) # 0}
        near == {i \in 1..Len(inputs) : IsPositioned(node, inputs[i])}
    IN IF levels # {} THEN findCaptchaInput(inputs, Least(levels))
       ELSE IF near # {} THEN Least(near)
       ELSE 0

\* findRelatedInput of the detector module, its loop between the two: the
\* first text input, in document order, that is named like a captcha input
\* and whose offsets from the element add up to less than 200
IsNearAndNamed(node, input) ==
    /\ Abs(input.top - node.top) + Abs(input.left - (node.left + node.width)) < 200
    /\ isCaptchaInputByName(input)

\* findRelatedInput of the detector module (captcha-detector.js)
RelatedInputOfModule(node, inputs) ==
    LET levels == {d \in 1..5 : d <= Len(node.ancestors)
                                   /\ findCaptchaInput(inputs, d) # 0}
        named == {i \in 1..Len(inputs) : IsNearAndNamed(node, inputs[i])}
        near == {i \in 1..Len(inputs) : IsPositioned(node, inputs[i])}
    IN IF levels # {} THEN findCaptchaInput(inputs, Least(levels))
       ELSE IF named # {} THEN Least(named)
       ELSE IF near # {} THEN Least(near)
       ELSE 0

\* the element as the detector reads it off a node and the text inputs of
\* its document
ReadElement(node, inputs) ==
    [tag |-> node.tag, width |-> node.width, height |-> node.height,
     shown |-> node.shown,
     kw |-> matchesKeywords(node),
     srcKw |-> node.tag = "img" /\ srcContainsKeywords(node.src),
     altKw |-> node.tag = "img" /\ matchesKeywordsInText(node.alt),
     parentKw |-> parentContainsKeywords(node),
     input |-> RelatedInput(node, inputs)]

\* A login form: a shown 120x40 img at the origin under 6 ancestors, and
\* one text input on its row, gap px right of it
FormAncestors(box) ==
    <<[id |-> "", className |-> box], [id |-> "", className |-> "row"],
      [id |-> "login", className |-> ""], [id |-> "", className |-> ""],
      [id |-> "", className |-> ""], [id |-> "", className |-> ""]>>

FormImg(id, src, box) ==
    [tag |-> "img", id |-> id, className |-> "", src |-> src, alt |-> "",
     ancestors |-> FormAncestors(box), left |-> 0, top |-> 0,
     width |-> 120, height |-> 40, shown |-> TRUE]

FormInput(name, gap, depth) ==
    [name |-> name, id |-> "", placeholder |-> "", className |-> "",
     left |-> 120 + gap, top |-> 0, depth |-> depth]

FormDocs ==
    {<<ReadElement(FormImg(id, src, box), <<FormInput(name, gap, depth)>>)>> :
        id \in {"captchaImg", "logo"},
        src \in {"https://example.com/cap.png", "https://example.com/captcha.php"},
        box \in {"field", "verify-box"},
        name \in {"vcode", "q"},
        gap \in {10, 200},
        depth \in {2, 6}}

\* where a text input can lie around the 120x40 img at the origin: on its
\* row 10, 150, 160, 199 or 200 px right of it, 50 px lower at the same gap,
\* below its left edge, and far away
InputPlaces ==
    {<<130, 0>>, <<270, 0>>, <<280, 0>>, <<319, 0>>, <<320, 0>>, <<130, 50>>,
     <<0, 50>>, <<500, 500>>}

\* text inputs named like a captcha input or not, inside the second or the
\* sixth ancestor of the img
LookupInputs ==
    {[name |-> name, id |-> "", placeholder |-> "", className |-> "",
      left |-> at[1], top |-> at[2], depth |-> depth] :
        name \in {"vcode", "q"}, at \in InputPlaces, depth \in {2, 6}}

LookupNode == FormImg("captchaImg", "https://example.com/cap.png", "field")

\* no call of findRelatedInput looked at
NoLookup == [impl |-> "none", inputs |-> <<>>, called |-> FALSE, found |-> 0]

\* detector.findRelatedInput(element) is called
findRelatedInput_call ==
    /\ lookup.impl # "none"
    /\ ~lookup.called
    /\ lookup' = [lookup EXCEPT
                    !.called = TRUE,
                    !.found = IF lookup.impl = "module"
                              THEN RelatedInputOfModule(LookupNode, lookup.inputs)
                              ELSE RelatedInput(LookupNode, lookup.inputs)]
    /\ UNCHANGED <<storedConfig, storedRetry, storedTimeout, exchange, stats, updates,
                   cacheVars, popupSeen, bgMsg, bgResp, adapters, recVars, late, tcVars, pageVars>>

(***************************************************************************)
(* The page controller: the handlers of the popup's requests               *)
(***************************************************************************)
NoId == <<"none", 0>>
\* A request: its action, the captchaId of a recognize or preview, the text
\* of a fill and, of an applySiteRule, what its selector finds on the page:
\* the element (0: none), whether its rendered area is zero, and whether an
\* img is loaded ("complete"), loads later ("load"), fails ("error") or
\* stays pending ("never")
NoReq ==
    [action |-> "none", captchaId |-> NoId, text |-> "", target |-> 0,
     zeroArea |-> FALSE, imgLoad |-> "complete",
     simulate |-> TRUE, autoSubmit |-> FALSE]

\* fill not called yet.  Of a call: the input element (0: absent), the
\* text, the options simulate and autoSubmit, what submitForm finds around
\* the input (an enclosing form whose submit event is or is not cancelled,
\* a submit button, or neither), the answer to the confirmation dialog of
\* the AutoFill module ("none": no dialog), the caller, and what fill
\* returned
NoFill ==
    [input |-> 0, text |-> "", simulate |-> TRUE, autoSubmit |-> FALSE,
     page |-> "form", confirm |-> "none", caller |-> "none", ret |-> "none"]

\* what submitForm can find around the input
Pages == {"form", "formCancels", "button", "bare"}
NoPageResp == [kind |-> "none", detail |-> "", best |-> NoId]
PageOk(detail, best) == [kind |-> "ok", detail |-> detail, best |-> best]
PageError(detail) == [kind |-> "error", detail |-> detail, best |-> NoId]

\* captureImage not called yet.  Of a call: the handler that made it, the
\* type of the candidate, how the element was when captureImage was called
\* (in the document with a rendered area, out of it, or without area),
\* whether the img has no natural size, whether it taints a canvas, whether
\* its src is a data URI, and how the call settled
NoCapture ==
    [for |-> "none", type |-> "none", elem |-> "none", naturalZero |-> FALSE,
     tainted |-> FALSE, srcData |-> FALSE,
     result |-> "none", from |-> "none", len |-> 0, err |-> ""]

\* how the element of a request is when the request arrives
ElemStates == {"ok", "detached", "zeroArea"}

\* the length of 'data:,', the data URI of a surface without pixels
BlankLen == 6

\* the lengths of the data URIs a capture can produce: 'data:,' of a blank
\* surface, and strings just below and at the minimum length
CaptureLens == {BlankLen, MinImageDataLength - 1, MinImageDataLength}

\* the popup posts a request; one user request is outstanding at a time
PopupIdle ==
    /\ pageReq.action = "none"
    /\ bgMsg.action = "none"
    /\ ppc = "idle"
    /\ typed = -1
    /\ late = 0

\* the texts a fill request carries
FillTexts == {SubSeq("AB3x77", 1, n) : n \in 0..MaxText}

\* a request arrives: the records of the last capture and of the last fill
\* start anew
NewRecords ==
    /\ cap' = NoCapture
    /\ fetches' = 0
    /\ urlsCreated' = 0
    /\ urlsRevoked' = 0
    /\ fillRun' = NoFill
    /\ events' = <<>>
    /\ overlapResp' = NoPageResp
    /\ UNCHANGED <<impl, loadPc, picker, inputValue>>

\* a request to the page controller: the records of the coordinator's last
\* call and its last response start anew as well
PageRequest ==
    /\ ClearCalls
    /\ bgResp' = NoOutcome
    /\ popupSeen' = TRUE
    /\ UNCHANGED <<storedConfig, storedRetry, storedTimeout, layerVars, bgMsg, adapters,
                   late>>

\* the same for a call the content script makes by itself
OwnRequest ==
    /\ ClearCalls
    /\ bgResp' = NoOutcome
    /\ UNCHANGED <<storeVars, bgMsg, adapters, late>>

\* a request that does not capture
NewRequest ==
    /\ NewRecords
    /\ UNCHANGED elemState

\* a request that captures, with the element as the page has it by then
NewCapture ==
    /\ NewRecords
    /\ elemState' \in ElemStates

popup_scan ==
    /\ PopupIdle
    /\ pageReq' = [NoReq EXCEPT !.action = "scan"]
    /\ pageResp' = NoPageResp
    /\ UNCHANGED <<doc, detectedCaptchas, currentCaptcha, isProcessing, ppc, typed>>
    /\ PageRequest
    /\ NewRequest
    /\ UNCHANGED scanHist

popup_recognize ==
    /\ PopupIdle
    /\ \E id \in {NoId} \cup {detectedCaptchas[i].id : i \in 1..Len(detectedCaptchas)} :
         pageReq' = [NoReq EXCEPT !.action = "recognize", !.captchaId = id]
    /\ pageResp' = NoPageResp
    /\ NewCapture
    /\ UNCHANGED <<doc, detectedCaptchas, currentCaptcha, isProcessing, ppc, typed>>
    /\ PageRequest
    /\ UNCHANGED scanHist

popup_preview ==
    /\ PopupIdle
    /\ \E id \in {NoId} \cup {detectedCaptchas[i].id : i \in 1..Len(detectedCaptchas)} :
         pageReq' = [NoReq EXCEPT !.action = "preview", !.captchaId = id]
    /\ pageResp' = NoPageResp
    /\ NewCapture
    /\ UNCHANGED <<doc, detectedCaptchas, currentCaptcha, isProcessing, ppc, typed>>
    /\ PageRequest
    /\ UNCHANGED scanHist

\* the popup's fill message: options { simulate: true }
popup_fill ==
    /\ PopupIdle
    /\ fillRun = NoFill
    /\ \E t \in FillTexts :
         pageReq' = [NoReq EXCEPT !.action = "fill", !.text = t]
    /\ pageResp' = NoPageResp
    /\ UNCHANGED <<doc, detectedCaptchas, currentCaptcha, isProcessing, ppc, typed>>
    /\ PageRequest
    /\ NewRequest
    /\ UNCHANGED scanHist

\* checkAndApplySiteRule: handleFill(response.text, { autoSubmit:
\* settings.autoSubmit }, ...) after an automatic recognition
siteRule_fill ==
    /\ PopupIdle
    /\ fillRun = NoFill
    /\ \E t \in FillTexts \ {""}, submit \in BOOLEAN :
         pageReq' = [NoReq EXCEPT !.action = "fill", !.text = t,
                                  !.autoSubmit = submit]
    /\ pageResp' = NoPageResp
    /\ UNCHANGED <<doc, detectedCaptchas, currentCaptcha, isProcessing, ppc, typed>>
    /\ OwnRequest
    /\ NewRequest
    /\ UNCHANGED scanHist

\* a sender (page controller, options page) posts a request; the number of
\* abandoned adapter calls still running is capped by waiting for them
send_recognizeCaptcha ==
    /\ bgMsg.action = "none"
    /\ pageReq.action = "none"
    /\ late = 0
    /\ \E len \in {0, MinImageDataLength} : bgMsg' = RecognizeMsg(len)
    /\ bgResp' = NoOutcome
    /\ ClearCalls
    /\ pageResp' = NoPageResp
    /\ NewRequest
    /\ UNCHANGED <<doc, detectedCaptchas, currentCaptcha, isProcessing,
                   pageReq, ppc, typed, scanHist>>
    /\ UNCHANGED <<storeVars, adapters, late>>

send_testConnection ==
    /\ bgMsg.action = "none"
    /\ pageReq.action = "none"
    /\ late = 0
    /\ \E cfg \in ApiTypes \cup {"none"} : bgMsg' = TestMsg(cfg)
    /\ bgResp' = NoOutcome
    /\ ClearCalls
    /\ pageResp' = NoPageResp
    /\ NewRequest
    /\ UNCHANGED <<doc, detectedCaptchas, currentCaptcha, isProcessing,
                   pageReq, ppc, typed, scanHist>>
    /\ UNCHANGED <<storeVars, adapters, late>>

\* sendResponse(r)
RespondPage(r) ==
    /\ pageResp' = r
    /\ pageReq' = NoReq

\* the last two entries of a sequence
LastTwo(q) == IF Len(q) <= 2 THEN q ELSE SubSeq(q, Len(q) - 1, Len(q))

\* handleScan
handleScan ==
    /\ pageReq.action = "scan"
    /\ detectedCaptchas' = ResetList(detectedCaptchas) \o scan(doc)
    /\ currentCaptcha' = getMostLikelyCaptcha(detectedCaptchas')
    /\ RespondPage(PageOk("scan", currentCaptcha'.id))
    /\ scanReturns' = LastTwo(Append(scanReturns, detectedCaptchas'))
    /\ UNCHANGED <<doc, isProcessing, ppc, typed>>
    /\ UNCHANGED bgVars
    /\ UNCHANGED <<capVars, fillVars>>

\* what settles a capture: a payload (drawn on a canvas, the src verbatim,
\* or the screenshot fallback) of some length, or an error
Payload(from, len) == [result |-> "payload", from |-> from, len |-> len, err |-> ""]
CapError(e) == [result |-> "error", from |-> "none", len |-> 0, err |-> e]

\* the mutant of IsValidCapture: any non-empty string passes
IsValidCapture_NonEmpty(len) == len > 0

\* handleRecognize: the test of the captured string
IsValidCapture(len) == len >= MinImageDataLength

\* handleRecognize: the catch and the finally after a throw with message e
RecognizeFails(e) ==
    /\ RespondPage(PageError(e))
    /\ isProcessing' = FALSE
    /\ ppc' = "idle"
    /\ UNCHANGED <<bgMsg, bgResp, recVars, tcVars>>

\* handleRecognize after captureImage resolved with a data URI of length len:
\* the validity test, then the recognizeCaptcha message to the coordinator
CaptureResolves(len) ==
    IF ~IsValidCapture(len)
    THEN RecognizeFails("InvalidImageData")
    ELSE /\ bgMsg' = RecognizeMsg(len)
         /\ bgResp' = NoOutcome
         /\ ClearCalls
         /\ ppc' = "coordinator"
         /\ UNCHANGED <<pageReq, pageResp, isProcessing>>

\* the handler that awaits captureImage goes on: handleRecognize with its
\* validity test and message, handlePreviewCaptcha with its response
AfterCapture(c, o) ==
    IF c.for = "recognize"
    THEN IF o.result = "payload" THEN CaptureResolves(o.len)
                                 ELSE RecognizeFails(o.err)
    ELSE /\ RespondPage(IF o.result = "payload"
                        THEN PageOk("preview", NoId)
                        ELSE PageError(o.err))
         /\ ppc' = "idle"
         /\ UNCHANGED <<isProcessing, bgMsg, bgResp, recVars, tcVars>>

\* the promise of captureImage settles with outcome o
CaptureSettles(c, o) ==
    /\ cap' = [c EXCEPT !.result = o.result, !.from = o.from,
                        !.len = o.len, !.err = o.err]
    /\ AfterCapture(c, o)

\* the promise of captureImage waits for an event, at position p
CaptureWaits(c, p) ==
    /\ cap' = c
    /\ ppc' = p
    /\ UNCHANGED <<pageReq, pageResp, isProcessing, bgMsg, bgResp,
                   recVars, tcVars>>

\* the mutant of captureElementAsScreenshot: a tainted canvas serializes
\* to a blank string
captureElementAsScreenshot_Blank(c) ==
    {Payload("screenshot", BlankLen)}

\* captureElementAsScreenshot: the element drawn on a second canvas and
\* serialized; a tainted canvas throws again
captureElementAsScreenshot(c) ==
    IF c.tainted
    THEN {CapError("SecurityError")}
    ELSE {Payload("screenshot", len) : len \in CaptureLens \ {BlankLen}}
         \cup {CapError("ScreenshotFailed")}

\* captureImgElement of the bundle after waitForImageLoad: the size test,
\* the draw, the serialization, and in its catch the src of a data URI
\* verbatim or else the screenshot
ImgOutcomes(c) ==
    IF c.naturalZero
    THEN {CapError("ZeroImageSize")}
    ELSE LET direct == IF c.tainted THEN {}
                       ELSE {Payload("canvas", len) : len \in CaptureLens \ {BlankLen}}
             fallback == IF c.srcData
                         THEN {Payload("src", len) : len \in CaptureLens}
                         ELSE {IF o.result = "payload" THEN o
                               ELSE CapError("CrossOriginCapture") :
                                  o \in captureElementAsScreenshot(c)}
         IN  direct \cup fallback

CaptureImgSettles(c) == \E o \in ImgOutcomes(c) : CaptureSettles(c, o)

\* captureImgElement of the detector module, img.onload of the new Image:
\* the draw and the serialization, and in the catch the src of a data URI
NewImgOutcomes(c) ==
    {Payload("canvas", len) : len \in CaptureLens}
    \cup (IF c.srcData THEN {Payload("src", len) : len \in CaptureLens}
                       ELSE {CapError("CrossOriginCapture")})

\* captureImage(captcha), as far as it runs without waiting for an event;
\* req is the handler that called it
captureImage(captcha, req) ==
    LET c0 == [NoCapture EXCEPT !.for = req, !.type = captcha.type,
                                !.elem = elemState, !.result = "pending"]
    IN
    \/ \* captureImgElement of the bundle: waitForImageLoad returns at once
       \* for a loaded image and for a data: source
       /\ captcha.type = "image"
       /\ impl = "bundle"
       /\ \E loaded, nz, t, sd \in BOOLEAN :
            /\ loaded => ~nz
            /\ LET c == [c0 EXCEPT !.naturalZero = nz, !.tainted = t,
                                   !.srcData = sd]
               IN IF loaded \/ sd THEN CaptureImgSettles(c)
                                  ELSE CaptureWaits(c, "imgWait")
       /\ UNCHANGED <<fetches, urlsCreated, urlsRevoked>>
    \/ \* captureImgElement of the detector module: a new Image is given
       \* the src with a _t= timestamp attached and loads it
       /\ captcha.type = "image"
       /\ impl = "module"
       /\ \E sd \in BOOLEAN :
            /\ CaptureWaits([c0 EXCEPT !.srcData = sd], "newImgWait")
            \* a src that is no data URI is requested from the network
            /\ fetches' = IF sd THEN fetches ELSE fetches + 1
       /\ UNCHANGED <<urlsCreated, urlsRevoked>>
    \/ \* captureCanvasElement: canvas.toDataURL
       /\ captcha.type = "canvas"
       /\ \/ \E len \in CaptureLens : CaptureSettles(c0, Payload("canvas", len))
          \/ CaptureSettles([c0 EXCEPT !.tainted = TRUE], CapError("TaintedCanvas"))
       /\ UNCHANGED <<fetches, urlsCreated, urlsRevoked>>
    \/ \* captureSvgElement: the object URL is made and the rasterizing
       \* Image starts loading it; no timer is armed
       /\ captcha.type = "svg"
       /\ CaptureWaits(c0, "svgWait")
       /\ urlsCreated' = urlsCreated + 1
       /\ UNCHANGED <<fetches, urlsRevoked>>
    \/ \* captureSvgElement: cloning or serializing throws before
       \* createObjectURL
       /\ captcha.type = "svg"
       /\ CaptureSettles(c0, CapError("SvgSerialization"))
       /\ UNCHANGED <<fetches, urlsCreated, urlsRevoked>>

\* handleRecognize, to its first await (the 100ms render wait)
handleRecognize ==
    /\ pageReq.action = "recognize"
    /\ ppc = "idle"
    /\ IF isProcessing
       THEN /\ RespondPage(PageError("Busy"))
            /\ UNCHANGED <<currentCaptcha, isProcessing, ppc>>
       ELSE LET captcha == IF pageReq.captchaId # NoId
                           THEN FindById(detectedCaptchas, pageReq.captchaId, 1)
                           ELSE getMostLikelyCaptcha(detectedCaptchas)
            IN IF captcha = NoCaptcha
               THEN \* throw: caught, answered; finally resets isProcessing
                    /\ RespondPage(PageError("NoCaptchaFound"))
                    /\ UNCHANGED <<currentCaptcha, isProcessing, ppc>>
               ELSE IF elemState = "detached"
               THEN \* document.body.contains(element) is false
                    /\ RespondPage(PageError("ElementDetached"))
                    /\ UNCHANGED <<currentCaptcha, isProcessing, ppc>>
               ELSE /\ currentCaptcha' = captcha
                    /\ isProcessing' = TRUE
                    /\ ppc' = "render"
                    /\ UNCHANGED <<pageReq, pageResp>>
    /\ UNCHANGED <<doc, detectedCaptchas, typed>>
    /\ UNCHANGED bgVars
    /\ UNCHANGED <<scanHist, capVars, fillVars>>

\* a second recognize message arrives while handleRecognize is at one of
\* its awaits: isProcessing is set, the message is answered and the handler
\* returns
handleRecognize_busy ==
    /\ pageReq.action = "recognize"
    /\ ppc # "idle"
    /\ isProcessing
    /\ overlapResp = NoPageResp
    /\ overlapResp' = PageError("Busy")
    /\ UNCHANGED <<doc, detectedCaptchas, currentCaptcha, isProcessing, pageReq, pageResp,
                   ppc, typed>>
    /\ UNCHANGED bgVars
    /\ UNCHANGED <<scanHist, impl, loadPc, picker, elemState, cap, fetches, urlsCreated,
                   urlsRevoked, fillVars>>

\* the page takes the element out of the document, or hides it, while
\* handleRecognize waits for the render
element_changes ==
    /\ ppc = "render"
    /\ elemState = "ok"
    /\ elemState' \in {"detached", "zeroArea"}
    /\ UNCHANGED <<doc, detectedCaptchas, currentCaptcha, isProcessing,
                   pageReq, pageResp, ppc, typed>>
    /\ UNCHANGED bgVars
    /\ UNCHANGED <<scanHist, fillVars>>
    /\ UNCHANGED <<implVars, cap, fetches, urlsCreated, urlsRevoked>>

\* the 100ms timer fires: the zero-area test of getBoundingClientRect (all
\* zero for an element out of the document too), then captureImage
handleRecognize_capture ==
    /\ ppc = "render"
    /\ IF elemState # "ok"
       THEN /\ RecognizeFails("ElementNotVisible")
            /\ UNCHANGED <<cap, fetches, urlsCreated, urlsRevoked>>
       ELSE captureImage(currentCaptcha, "recognize")
    /\ UNCHANGED <<doc, detectedCaptchas, currentCaptcha, typed>>
    /\ UNCHANGED <<storeVars, adapters, late>>
    /\ UNCHANGED <<scanHist, fillVars, implVars, elemState>>

\* handlePreviewCaptcha: the candidate by id or the most likely one, then
\* captureImage at once and the response with the image data
handlePreviewCaptcha ==
    /\ pageReq.action = "preview"
    /\ ppc = "idle"
    /\ LET captcha == IF pageReq.captchaId # NoId
                      THEN FindById(detectedCaptchas, pageReq.captchaId, 1)
                      ELSE getMostLikelyCaptcha(detectedCaptchas)
       IN IF captcha = NoCaptcha
          THEN /\ RespondPage(PageError("NoCaptchaFound"))
               /\ UNCHANGED <<isProcessing, ppc, bgMsg, bgResp, recVars, tcVars>>
               /\ UNCHANGED <<cap, fetches, urlsCreated, urlsRevoked>>
          ELSE captureImage(captcha, "preview")
    /\ UNCHANGED <<doc, detectedCaptchas, currentCaptcha, typed>>
    /\ UNCHANGED <<storeVars, adapters, late>>
    /\ UNCHANGED <<scanHist, fillVars, implVars, elemState>>

\* waitForImageLoad: img.onload
img_onload ==
    /\ ppc = "imgWait"
    /\ CaptureImgSettles(cap)
    /\ UNCHANGED <<doc, detectedCaptchas, currentCaptcha, typed>>
    /\ UNCHANGED <<storeVars, adapters, late>>
    /\ UNCHANGED <<scanHist, fillVars>>
    /\ UNCHANGED <<implVars, elemState, fetches, urlsCreated, urlsRevoked>>

\* waitForImageLoad: img.onerror
img_onerror ==
    /\ ppc = "imgWait"
    /\ CaptureSettles(cap, CapError("ImageLoadFailed"))
    /\ UNCHANGED <<doc, detectedCaptchas, currentCaptcha, typed>>
    /\ UNCHANGED <<storeVars, adapters, late>>
    /\ UNCHANGED <<scanHist, fillVars>>
    /\ UNCHANGED <<implVars, elemState, fetches, urlsCreated, urlsRevoked>>

\* waitForImageLoad: the 5s timer
img_loadTimeout ==
    /\ ppc = "imgWait"
    /\ CaptureSettles(cap, CapError("ImageLoadTimeout"))
    /\ UNCHANGED <<doc, detectedCaptchas, currentCaptcha, typed>>
    /\ UNCHANGED <<storeVars, adapters, late>>
    /\ UNCHANGED <<scanHist, fillVars>>
    /\ UNCHANGED <<implVars, elemState, fetches, urlsCreated, urlsRevoked>>

\* captureImgElement of the detector module: newImg.onload
newImg_onload ==
    /\ ppc = "newImgWait"
    /\ \E o \in NewImgOutcomes(cap) : CaptureSettles(cap, o)
    /\ UNCHANGED <<doc, detectedCaptchas, currentCaptcha, typed>>
    /\ UNCHANGED <<storeVars, adapters, late>>
    /\ UNCHANGED <<scanHist, fillVars>>
    /\ UNCHANGED <<implVars, elemState, fetches, urlsCreated, urlsRevoked>>

\* captureImgElement of the detector module: newImg.onerror
newImg_onerror ==
    /\ ppc = "newImgWait"
    /\ \E len \in CaptureLens :
         CaptureSettles(cap, IF cap.srcData THEN Payload("src", len)
                                            ELSE CapError("ImageLoadFailed"))
    /\ UNCHANGED <<doc, detectedCaptchas, currentCaptcha, typed>>
    /\ UNCHANGED <<storeVars, adapters, late>>
    /\ UNCHANGED <<scanHist, fillVars>>
    /\ UNCHANGED <<implVars, elemState, fetches, urlsCreated, urlsRevoked>>

\* captureSvgElement: img.onload of the rasterizing Image
svg_onload ==
    /\ ppc = "svgWait"
    /\ \/ \* drawImage, revokeObjectURL, resolve(canvas.toDataURL())
          /\ \E len \in CaptureLens : CaptureSettles(cap, Payload("canvas", len))
          /\ urlsRevoked' = urlsRevoked + 1
       \/ \* createElement, getContext or drawImage throws inside the
          \* handler, before revokeObjectURL: the promise of
          \* captureSvgElement is neither resolved nor rejected
          /\ CaptureWaits([cap EXCEPT !.err = "DrawThrew"], "svgHung")
          /\ UNCHANGED urlsRevoked
       \/ \* toDataURL throws, after revokeObjectURL: the promise is
          \* neither resolved nor rejected
          /\ CaptureWaits([cap EXCEPT !.err = "SerializeThrew"], "svgHung")
          /\ urlsRevoked' = urlsRevoked + 1
    /\ UNCHANGED <<doc, detectedCaptchas, currentCaptcha, typed>>
    /\ UNCHANGED <<storeVars, adapters, late>>
    /\ UNCHANGED <<scanHist, fillVars>>
    /\ UNCHANGED <<implVars, elemState, fetches, urlsCreated>>

\* captureSvgElement: img.onerror of the rasterizing Image
svg_onerror ==
    /\ ppc = "svgWait"
    /\ CaptureSettles(cap, CapError("SvgConversionFailed"))
    /\ urlsRevoked' = urlsRevoked + 1
    /\ UNCHANGED <<doc, detectedCaptchas, currentCaptcha, typed>>
    /\ UNCHANGED <<storeVars, adapters, late>>
    /\ UNCHANGED <<scanHist, fillVars>>
    /\ UNCHANGED <<implVars, elemState, fetches, urlsCreated>>

\* handleRecognize: the coordinator's response arrives
handleRecognize_response ==
    /\ ppc = "coordinator"
    /\ bgResp.kind # "none"
    /\ RespondPage(IF bgResp.kind = "success"
                   THEN PageOk(bgResp.text, currentCaptcha.id)
                   ELSE PageError(bgResp.error))
    /\ isProcessing' = FALSE
    /\ ppc' = "idle"
    /\ UNCHANGED <<doc, detectedCaptchas, currentCaptcha, typed>>
    /\ UNCHANGED bgVars
    /\ UNCHANGED <<scanHist, capVars, fillVars>>

\* what a fill does to its input, in order: an event dispatched on it
\* (input, keydown, keyup, keypress, change, blur, with the key of a key
\* event), a write of its value (clear, append, set), focus(), the
\* highlight, and the submit of its form
Ev(type, key) == [type |-> type, key |-> key]

\* fill: focus, value = '', dispatch input
Prologue == <<Ev("focus", ""), Ev("clear", ""), Ev("input", "")>>

\* the mutant of CharOps: the keyup is dispatched before the input event
CharOps_KeyupEarly(c) ==
    <<Ev("keydown", c), Ev("append", c), Ev("keyup", c), Ev("input", "")>>

\* simulateTyping, one turn of the loop up to its delay
CharOps(c) ==
    <<Ev("keydown", c), Ev("append", c), Ev("input", ""), Ev("keyup", c)>>

\* simulateTyping after the loop
TypingTail == <<Ev("change", ""), Ev("blur", "")>>

\* fill without simulation: value = text, input, change
DirectOps(text) == <<Ev("set", text), Ev("input", ""), Ev("change", "")>>

\* submitForm: the cancelable submit event on the enclosing form and, if it
\* was not cancelled, form.submit(); without a form the click on a submit
\* button; without both, the Enter key on the input in the bundle, and
\* only a warning in the log in the AutoFill module
submitForm(run) ==
    CASE run.page = "form" -> <<Ev("submit", ""), Ev("form.submit", "")>>
      [] run.page = "formCancels" -> <<Ev("submit", "")>>
      [] run.page = "button" -> <<Ev("click", "")>>
      [] OTHER ->
           IF run.caller = "importer" THEN <<>>
           ELSE <<Ev("keydown", "Enter"), Ev("keypress", "Enter"),
                  Ev("keyup", "Enter")>>

\* fill after the typing: highlightInput and the optional submitForm, in
\* the AutoFill module after the confirmation dialog if it was confirmed
Epilogue(run) ==
    <<Ev("highlight", "")>>
    \o (IF ~run.autoSubmit THEN <<>>
        ELSE IF run.confirm = "none" THEN submitForm(run)
        ELSE <<Ev("confirm", run.confirm)>>
             \o (IF run.confirm = "yes" THEN submitForm(run) ELSE <<>>))

\* the i-th character of a text
CharAt(text, i) == SubSeq(text, i, i)

\* what fill does between two awaited delays: from the call to the first
\* delay (i = 0), and from the end of the i-th delay to the next one or to
\* the return
SegOps(run, i) ==
    LET n == Len(run.text)
        rest == IF i < n THEN CharOps(CharAt(run.text, i + 1))
                         ELSE TypingTail \o Epilogue(run)
    IN IF i > 0 THEN rest
       ELSE IF run.simulate THEN Prologue \o rest
       ELSE Prologue \o DirectOps(run.text) \o Epilogue(run)

\* simulateTyping waits for a delay after these operations
EndsInDelay(run, i) == run.simulate /\ i < Len(run.text)

\* the value of the input after operations on it
RECURSIVE ValueAfter(_, _)
ValueAfter(v, ops) ==
    IF ops = <<>> THEN v
    ELSE LET op == Head(ops)
             w == CASE op.type = "clear" -> ""
                    [] op.type = "append" -> v \o op.key
                    [] op.type = "set" -> op.key
                    [] OTHER -> v
         IN ValueAfter(w, Tail(ops))

\* the mutant of ReturnOf: the exception of a step is thrown on
ReturnOf_Rethrow(completed) == IF completed THEN "true" ELSE "rejected"

\* fill: return true at the end of the try, return false in the catch
ReturnOf(completed) == IF completed THEN "true" ELSE "false"

\* fill returns to its caller; handleFill passes the result to sendResponse
FillReturns(run, completed) ==
    /\ fillRun' = [run EXCEPT !.ret = ReturnOf(completed)]
    /\ typed' = -1
    /\ IF run.caller = "handleFill"
       THEN RespondPage(IF completed THEN PageOk("filled", NoId)
                                     ELSE PageError("FillFailed"))
       ELSE UNCHANGED <<pageReq, pageResp>>

\* fill runs from the call (i = 0) or from the end of the i-th delay: some
\* operations complete; the next one throws, or all are done
RunSegment(run, i, before) ==
    IF run.input = 0
    THEN \* if (!inputElement) throw
         /\ events' = before
         /\ UNCHANGED inputValue
         /\ FillReturns(run, FALSE)
    ELSE LET ops == SegOps(run, i)
         IN \E k \in 0..Len(ops) :
              LET done == SubSeq(ops, 1, k)
              IN /\ events' = before \o done
                 /\ inputValue' = ValueAfter(inputValue, done)
                 /\ IF k < Len(ops) THEN FillReturns(run, FALSE)
                    ELSE IF EndsInDelay(run, i)
                    THEN /\ fillRun' = [run EXCEPT !.ret = "pending"]
                         /\ typed' = i + 1
                         /\ UNCHANGED <<pageReq, pageResp>>
                    ELSE FillReturns(run, TRUE)

\* autoFill.fill(input, text, options) is called
FillStart(run) == RunSegment(run, 0, <<>>)

\* handleFill, and autoFill.fill to its first await
handleFill ==
    /\ pageReq.action = "fill"
    /\ typed = -1
    /\ IF currentCaptcha = NoCaptcha
       THEN /\ RespondPage(PageError("NoCaptchaDetected"))
            /\ UNCHANGED <<typed, fillVars>>
       ELSE IF currentCaptcha.inputElement = 0
       THEN /\ RespondPage(PageError("NoInputFound"))
            /\ UNCHANGED <<typed, fillVars>>
       ELSE \E page \in Pages :
              /\ ~pageReq.autoSubmit => page = "form"
              /\ FillStart([input |-> currentCaptcha.inputElement,
                            text |-> pageReq.text,
                            simulate |-> pageReq.simulate,
                            autoSubmit |-> pageReq.autoSubmit,
                            page |-> page, confirm |-> "none",
                            caller |-> "handleFill", ret |-> "pending"])
    /\ UNCHANGED <<doc, detectedCaptchas, currentCaptcha, isProcessing, ppc>>
    /\ UNCHANGED bgVars
    /\ UNCHANGED <<scanHist, capVars>>

\* an importer of the AutoFill module calls fill(inputElement, text,
\* options), with or without an input element
call_fill ==
    /\ PopupIdle
    /\ fillRun = NoFill
    /\ \E input \in {0, 1}, text \in FillTexts, simulate, autoSubmit \in BOOLEAN,
          page \in Pages, confirm \in {"none", "yes", "no"} :
         /\ ~autoSubmit => (page = "form" /\ confirm = "none")
         /\ FillStart([input |-> input, text |-> text, simulate |-> simulate,
                       autoSubmit |-> autoSubmit, page |-> page,
                       confirm |-> confirm,
                       caller |-> "importer", ret |-> "pending"])
    /\ UNCHANGED <<doc, detectedCaptchas, currentCaptcha, isProcessing, ppc>>
    /\ OwnRequest
    /\ cap' = NoCapture
    /\ fetches' = 0
    /\ urlsCreated' = 0
    /\ urlsRevoked' = 0
    /\ UNCHANGED <<scanHist, implVars, elemState>>

\* the caller of fill, or the sender of the fill request, has read the
\* result: the record of the call is dropped
fill_resultRead ==
    /\ fillRun.ret \in {"true", "false"}
    /\ pageReq.action = "none"
    /\ fillRun' = NoFill
    /\ events' = <<>>
    /\ pageResp' = NoPageResp
    /\ UNCHANGED <<doc, detectedCaptchas, currentCaptcha, isProcessing,
                   pageReq, ppc, typed, inputValue>>
    /\ UNCHANGED bgVars
    /\ UNCHANGED <<scanHist, capVars>>

\* simulateTyping: the delay after a character elapses
fill_delayElapses ==
    /\ typed >= 1
    /\ RunSegment(fillRun, typed, events)
    /\ UNCHANGED <<doc, detectedCaptchas, currentCaptcha, isProcessing, ppc>>
    /\ UNCHANGED bgVars
    /\ UNCHANGED <<scanHist, capVars>>

(***************************************************************************)
(* Site rules                                                              *)
(***************************************************************************)
\* an element of the page that is no img, canvas or svg (a div), as the
\* element a selector finds
OtherNode == -1

\* the tagName of the element a selector finds
TagOfTarget(d, target) == IF target = OtherNode THEN "div" ELSE d[target].tag

\* the mutant of RuleType: every element is taken for an image
RuleType_Image(tag) == "image"

\* handleApplySiteRule: type
RuleType(tag) ==
    IF tag = "img" THEN "image" ELSE IF tag = "canvas" THEN "canvas" ELSE "svg"

\* handleApplySiteRule: the currentCaptcha built for the element found
RuleCaptcha(d, target) ==
    [type |-> RuleType(TagOfTarget(d, target)),
     element |-> target,
     width |-> IF target = OtherNode THEN MinWidth ELSE d[target].width,
     height |-> IF target = OtherNode THEN MinHeight ELSE d[target].height,
     confidence |-> MaxConfidence,
     inputElement |-> IF target = OtherNode THEN 0 ELSE findRelatedInput(d[target]),
     id |-> <<"rule-selected", 0>>]

\* the page or the site-rule check at load sends applySiteRule
popup_applySiteRule ==
    /\ PopupIdle
    /\ \E target \in (0..Len(doc)) \cup {OtherNode}, zero \in BOOLEAN,
          load \in {"complete", "load", "error", "never"} :
         /\ (load # "complete") => (target # 0 /\ TagOfTarget(doc, target) = "img")
         /\ zero => target # 0
         /\ pageReq' = [NoReq EXCEPT !.action = "applySiteRule", !.target = target,
                                     !.zeroArea = zero, !.imgLoad = load]
    /\ pageResp' = NoPageResp
    /\ UNCHANGED <<doc, detectedCaptchas, currentCaptcha, isProcessing, ppc, typed>>
    /\ PageRequest
    /\ NewRequest
    /\ UNCHANGED scanHist

\* handleApplySiteRule from the rendered-area test on
ApplyRule ==
    IF pageReq.zeroArea
    THEN /\ RespondPage(PageError("ElementNotVisible"))
         /\ UNCHANGED <<currentCaptcha, detectedCaptchas>>
    ELSE /\ currentCaptcha' = RuleCaptcha(doc, pageReq.target)
         /\ detectedCaptchas' = <<currentCaptcha'>>
         /\ RespondPage(PageOk("rule", currentCaptcha'.id))

\* handleApplySiteRule, to the await of waitForElementLoad if it waits
handleApplySiteRule ==
    /\ pageReq.action = "applySiteRule"
    /\ ppc = "idle"
    /\ \/ \* querySelector throws on a malformed selector
          /\ pageReq.target = 0
          /\ RespondPage(PageError("SyntaxError"))
          /\ UNCHANGED <<currentCaptcha, detectedCaptchas, ppc>>
       \/ /\ pageReq.target = 0
          /\ RespondPage(PageError("NoMatchingElement"))
          /\ UNCHANGED <<currentCaptcha, detectedCaptchas, ppc>>
       \/ /\ pageReq.target # 0
          /\ pageReq.imgLoad = "complete"
          /\ ApplyRule
          /\ UNCHANGED ppc
       \/ /\ pageReq.target # 0
          /\ pageReq.imgLoad # "complete"
          /\ ppc' = "ruleWait"
          /\ UNCHANGED <<currentCaptcha, detectedCaptchas, pageReq, pageResp>>
    /\ UNCHANGED <<doc, isProcessing, typed>>
    /\ UNCHANGED bgVars
    /\ UNCHANGED <<scanHist, capVars, fillVars>>

\* waitForElementLoad: the load event, or the 100ms check finding the img
\* complete
rule_imgLoaded ==
    /\ ppc = "ruleWait"
    /\ pageReq.imgLoad = "load"
    /\ ApplyRule
    /\ ppc' = "idle"
    /\ UNCHANGED <<doc, isProcessing, typed>>
    /\ UNCHANGED bgVars
    /\ UNCHANGED <<scanHist, capVars, fillVars>>

\* waitForElementLoad: the error event
rule_imgError ==
    /\ ppc = "ruleWait"
    /\ pageReq.imgLoad = "error"
    /\ RespondPage(PageError("ImageLoadFailed"))
    /\ ppc' = "idle"
    /\ UNCHANGED <<doc, detectedCaptchas, currentCaptcha, isProcessing, typed>>
    /\ UNCHANGED bgVars
    /\ UNCHANGED <<scanHist, capVars, fillVars>>

\* waitForElementLoad: the 5s timer, the img still not complete
rule_imgTimeout ==
    /\ ppc = "ruleWait"
    /\ pageReq.imgLoad = "never"
    /\ RespondPage(PageError("ImageLoadTimeout"))
    /\ ppc' = "idle"
    /\ UNCHANGED <<doc, detectedCaptchas, currentCaptcha, isProcessing, typed>>
    /\ UNCHANGED bgVars
    /\ UNCHANGED <<scanHist, capVars, fillVars>>


(***************************************************************************)
(* The element picker: initElementPicker of the content script ("bundle") *)
(* and the picker module ("module").  A session: whether its listeners    *)
(* are attached, the selectable element under the mouse (0: none), the    *)
(* calls of its completion callback, the result passed, the user's last   *)
(* gesture it received, the saveSiteRule message of handleStartPicker     *)
(* and whether the startPicker response was sent.                          *)
(***************************************************************************)
NoPicker == [impl |-> "bundle", sessions |-> <<>>]

NewSession(hovered) ==
    [active |-> TRUE, hovered |-> hovered, calls |-> 0, result |-> "none",
     gesture |-> "none", saved |-> "no", responded |-> FALSE]

AnyActive(p) == \E i \in 1..Len(p.sessions) : p.sessions[i].active

\* handleStartPicker: the currentCaptcha built for the element picked
PickedCaptcha(d, target) ==
    [RuleCaptcha(d, target) EXCEPT !.id = <<"manual-selected", 0>>]

\* the frame of a picker step
PickerFrame ==
    UNCHANGED <<storedConfig, storedRetry, storedTimeout, layerVars, bgMsg, bgResp,
                adapters, recVars, late, tcVars, doc, isProcessing, pageReq, pageResp,
                ppc, typed, scanHist, impl, loadPc, overlapResp, elemState, cap, fetches,
                urlsCreated, urlsRevoked, fillVars>>

\* a startPicker message: handleStartPicker calls initElementPicker, which
\* attaches its listeners; startPicker of the module returns at once while
\* a session is active, and keeps the hoveredElement of the session before
handleStartPicker ==
    /\ Len(picker.sessions) < MaxSessions
    /\ IF picker.impl = "module"
       THEN /\ ~AnyActive(picker)
            /\ picker' = [picker EXCEPT !.sessions =
                    Append(@, NewSession(IF Len(@) = 0 THEN 0 ELSE @[Len(@)].hovered))]
       ELSE picker' = [picker EXCEPT !.sessions = Append(@, NewSession(0))]
    /\ popupSeen' = TRUE
    /\ UNCHANGED <<currentCaptcha, detectedCaptchas>>
    /\ PickerFrame

\* handleMouseMove of every active session: the mouse is over a selectable
\* element, or over one that has none in or around it
picker_mouseMove ==
    /\ AnyActive(picker)
    /\ \E h \in 0..Len(doc) :
         picker' = [picker EXCEPT !.sessions =
            [i \in DOMAIN @ |-> IF @[i].active THEN [@[i] EXCEPT !.hovered = h] ELSE @[i]]]
    /\ UNCHANGED <<popupSeen, currentCaptcha, detectedCaptchas>>
    /\ PickerFrame

\* what the end of a session calls: initElementPicker calls its callback
\* after cleanup(); the module calls onSelectCallback after stopPicker()
\* has set it to null, that is never
Completed(which, s, result) ==
    IF which = "module"
    THEN [s EXCEPT !.active = FALSE]
    ELSE [s EXCEPT !.active = FALSE, !.calls = @ + 1, !.result = result,
                   !.saved = IF result = "success" THEN "sent" ELSE @,
                   !.responded = (result = "cancelled")]

\* handleClick of one session, for a click on the page or on a cancel button
\* (the listener on the document runs in the capture phase and stops the
\* propagation, so the listener of the button is not reached)
AfterClick(which, s, gesture) ==
    IF ~s.active THEN s
    ELSE IF s.hovered = 0 THEN [s EXCEPT !.gesture = gesture]
    ELSE Completed(which, [s EXCEPT !.gesture = gesture], "success")

\* a click: handleClick of every active session, in the order the sessions
\* were started; the callback of handleStartPicker sets the current
\* candidate and the detector's list and sends saveSiteRule
picker_click ==
    /\ AnyActive(picker)
    /\ \E gesture \in {"click", "cancelButton"} :
         picker' = [picker EXCEPT !.sessions =
            [i \in DOMAIN @ |-> AfterClick(picker.impl, @[i], gesture)]]
    /\ LET picked == {i \in 1..Len(picker.sessions) :
                        /\ picker.sessions[i].active
                        /\ picker.sessions[i].hovered # 0}
       IN  IF picker.impl = "bundle" /\ picked # {}
           THEN /\ currentCaptcha' =
                     PickedCaptcha(doc, picker.sessions[CHOOSE i \in picked : TRUE].hovered)
                /\ detectedCaptchas' = <<currentCaptcha'>>
           ELSE UNCHANGED <<currentCaptcha, detectedCaptchas>>
    /\ UNCHANGED popupSeen
    /\ PickerFrame

\* the Escape key: handleKeyDown of every active session
picker_escape ==
    /\ AnyActive(picker)
    /\ picker' = [picker EXCEPT !.sessions =
          [i \in DOMAIN @ |->
              IF @[i].active
              THEN Completed(picker.impl, [@[i] EXCEPT !.gesture = "escape"], "cancelled")
              ELSE @[i]]]
    /\ UNCHANGED <<popupSeen, currentCaptcha, detectedCaptchas>>
    /\ PickerFrame

\* the await of the saveSiteRule message ends, resolved or rejected (the
\* catch logs it); handleStartPicker then sends its response
picker_ruleSaved ==
    /\ \E i \in 1..Len(picker.sessions), how \in {"done", "failed"} :
         /\ picker.sessions[i].saved = "sent"
         /\ picker' = [picker EXCEPT !.sessions[i].saved = how,
                                     !.sessions[i].responded = TRUE]
    /\ UNCHANGED <<popupSeen, currentCaptcha, detectedCaptchas>>
    /\ PickerFrame

(***************************************************************************)
(* The page load: init() registers the message listener and arms a timer  *)
(* of one second; its callback scans and looks for a rule of the site.    *)
(***************************************************************************)
\* nothing of the load outstanding
LoadDone == [pc |-> "done", target |-> 0, zeroArea |-> FALSE, imgLoad |-> "complete",
             autoSolve |-> FALSE]

\* the callback of the timer: scanPage(), then checkAndApplySiteRule() up to
\* its first await
init_timer ==
    /\ loadPc.pc = "armed"
    /\ detectedCaptchas' = ResetList(detectedCaptchas) \o scan(doc)
    /\ scanReturns' = LastTwo(Append(scanReturns, detectedCaptchas'))
    /\ loadPc' = [LoadDone EXCEPT !.pc = "checkRule"]
    /\ UNCHANGED <<doc, currentCaptcha, isProcessing, pageReq, pageResp, ppc, typed>>
    /\ UNCHANGED bgVars
    /\ UNCHANGED <<impl, picker, overlapResp, elemState, cap, fetches, urlsCreated,
                   urlsRevoked, fillVars>>

\* handleApplySiteRule(selector, callback) as checkAndApplySiteRule calls it,
\* from the rendered-area test on, with the callback it is given: a timer
\* of 500ms if the rule applied and settings.autoSolveOnRule is set
LoadApplyRule(l) ==
    IF l.zeroArea
    THEN /\ loadPc' = LoadDone
         /\ UNCHANGED <<currentCaptcha, detectedCaptchas>>
    ELSE /\ currentCaptcha' = RuleCaptcha(doc, l.target)
         /\ detectedCaptchas' = <<currentCaptcha'>>
         /\ loadPc' = IF l.autoSolve THEN [LoadDone EXCEPT !.pc = "solveTimer"]
                       ELSE LoadDone

\* checkAndApplySiteRule once the settings and the rule of the host are
\* back: without a rule, or with a rule whose selector finds nothing, it
\* ends; else handleApplySiteRule runs to its end or to the await of
\* waitForElementLoad
checkAndApplySiteRule ==
    /\ loadPc.pc = "checkRule"
    /\ \/ /\ loadPc' = LoadDone
          /\ UNCHANGED <<currentCaptcha, detectedCaptchas>>
       \/ \E target \in (1..Len(doc)) \cup {OtherNode}, zero \in BOOLEAN,
             load \in {"complete", "load", "error", "never"}, autoSolve \in BOOLEAN :
            LET l == [pc |-> "imgWait", target |-> target, zeroArea |-> zero,
                      imgLoad |-> load, autoSolve |-> autoSolve]
            IN  /\ (load # "complete") => TagOfTarget(doc, target) = "img"
                /\ IF load = "complete"
                   THEN LoadApplyRule(l)
                   ELSE /\ loadPc' = l
                        /\ UNCHANGED <<currentCaptcha, detectedCaptchas>>
    /\ UNCHANGED <<doc, isProcessing, pageReq, pageResp, ppc, typed, scanHist>>
    /\ UNCHANGED bgVars
    /\ UNCHANGED <<impl, picker, overlapResp, elemState, cap, fetches, urlsCreated,
                   urlsRevoked, fillVars>>

\* waitForElementLoad settles for the rule of the load: the img loaded, or
\* failed, or the 5s timer ran out
load_imgSettles ==
    /\ loadPc.pc = "imgWait"
    /\ IF loadPc.imgLoad = "load"
       THEN LoadApplyRule(loadPc)
       ELSE /\ loadPc' = LoadDone
            /\ UNCHANGED <<currentCaptcha, detectedCaptchas>>
    /\ UNCHANGED <<doc, isProcessing, pageReq, pageResp, ppc, typed, scanHist>>
    /\ UNCHANGED bgVars
    /\ UNCHANGED <<impl, picker, overlapResp, elemState, cap, fetches, urlsCreated,
                   urlsRevoked, fillVars>>

\* the timer of 500ms: handleRecognize(result.captcha.id, ...), taken up
\* once no other request is with the page controller
load_autoSolve ==
    /\ loadPc.pc = "solveTimer"
    /\ pageReq.action = "none"
    /\ ppc = "idle"
    /\ typed = -1
    /\ bgMsg.action = "none"
    /\ late = 0
    /\ loadPc' = LoadDone
    /\ pageReq' = [NoReq EXCEPT !.action = "recognize",
                                !.captchaId = <<"rule-selected", 0>>]
    /\ pageResp' = NoPageResp
    /\ ClearCalls
    /\ bgResp' = NoOutcome
    /\ UNCHANGED <<storeVars, bgMsg, adapters, late>>
    /\ cap' = NoCapture
    /\ fetches' = 0
    /\ urlsCreated' = 0
    /\ urlsRevoked' = 0
    /\ fillRun' = NoFill
    /\ events' = <<>>
    /\ elemState' \in ElemStates
    /\ UNCHANGED <<doc, detectedCaptchas, currentCaptcha, isProcessing, ppc, typed,
                   scanHist, impl, picker, overlapResp, inputValue>>

(***************************************************************************)
(* The statistics: updateStats of up to MaxCalls recognize calls of the    *)
(* coordinator, each at its own await.                                      *)
(***************************************************************************)
\* getStats() of an empty store
NoStats == [totalRequests |-> 0, successCount |-> 0, failCount |-> 0]

NoUpdate == [pc |-> "idle", success |-> FALSE, read |-> NoStats]

StatsFrame ==
    UNCHANGED <<storedConfig, storedRetry, storedTimeout, exchange, lookup, cacheVars,
                popupSeen, bgMsg, bgResp, adapters, recVars, late, tcVars, pageVars>>

\* recognize of call i has its result and calls updateStats(success, elapsed),
\* which awaits getStats()
updateStats_called ==
    /\ \E i \in 1..MaxCalls, success \in BOOLEAN :
         /\ updates[i].pc = "idle"
         /\ updates' = [updates EXCEPT ![i] = [NoUpdate EXCEPT !.pc = "get",
                                                              !.success = success]]
    /\ UNCHANGED stats
    /\ StatsFrame

\* the storage answers the get of call i with the object stored by then
updateStats_getStats ==
    /\ \E i \in 1..MaxCalls :
         /\ updates[i].pc = "get"
         /\ updates' = [updates EXCEPT ![i].pc = "set", ![i].read = stats]
    /\ UNCHANGED stats
    /\ StatsFrame

\* call i counts on the object it was given and the storage takes its set
updateStats_set ==
    /\ \E i \in 1..MaxCalls :
         LET u == updates[i]
         IN  /\ u.pc = "set"
             /\ stats' = [totalRequests |-> u.read.totalRequests + 1,
                          successCount |-> u.read.successCount + (IF u.success THEN 1 ELSE 0),
                          failCount |-> u.read.failCount + (IF u.success THEN 0 ELSE 1)]
             /\ updates' = [updates EXCEPT ![i].pc = "done"]
    /\ StatsFrame

(***************************************************************************)
(* The adapter cache: the stored configurations, edited on the options     *)
(* page, and the adapters ApiManager keeps per configuration id.  The      *)
(* content of a configuration (endpoint, model, credential, generation     *)
(* parameters) is its revision number.                                      *)
(***************************************************************************)
ConfigIds == {"c1", "c2"}

NoConfig == [id |-> "none", type |-> "none", rev |-> 0]

NoInvoked == [called |-> FALSE, config |-> NoConfig, adapter |-> NoConfig]

\* two configurations stored, the first active, no adapter made yet
CacheEmpty ==
    /\ apiConfigs = [i \in ConfigIds |-> [id |-> i, type |-> "openai_compatible", rev |-> 0]]
    /\ activeId = "c1"
    /\ adapterCache = [i \in ConfigIds |-> NoConfig]
    /\ invoked = NoInvoked

CacheFrame ==
    UNCHANGED <<storedConfig, storedRetry, storedTimeout, exchange, lookup, stats, updates,
                popupSeen, bgMsg, bgResp, adapters, recVars, late, tcVars, pageVars>>

\* the options page saves an edited configuration: updateApiConfig(id,
\* updates) writes the merged object under the same id
updateApiConfig ==
    /\ \E i \in ConfigIds, type \in ApiTypes :
         /\ apiConfigs[i].rev < MaxEdits
         /\ apiConfigs' = [apiConfigs EXCEPT ![i].type = type, ![i].rev = @ + 1]
    /\ UNCHANGED <<activeId, adapterCache, invoked>>
    /\ CacheFrame

\* the options page makes another configuration the active one
setActiveConfigId ==
    /\ \E i \in ConfigIds \ {activeId} : activeId' = i
    /\ UNCHANGED <<apiConfigs, adapterCache, invoked>>
    /\ CacheFrame

\* getAdapter(config): the adapter cached under config.id, made from
\* config if there is none
getAdapter(cache, config) ==
    IF cache[config.id] = NoConfig THEN [cache EXCEPT ![config.id] = config] ELSE cache

\* ApiManager.recognize: getActiveConfig(), then getAdapter(config), whose
\* adapter is invoked
apiManager_recognize ==
    /\ LET config == apiConfigs[activeId]
       IN  /\ adapterCache' = getAdapter(adapterCache, config)
           /\ invoked' = [called |-> TRUE, config |-> config,
                          adapter |-> adapterCache'[config.id]]
    /\ UNCHANGED <<apiConfigs, activeId>>
    /\ CacheFrame

(***************************************************************************)
(* The adapters: the headers of a request and the text of a response.      *)
(***************************************************************************)
\* String.prototype.trim on the texts of the model: blanks off both ends
RECURSIVE TrimStart(_)
TrimStart(s) ==
    IF Len(s) > 0 /\ SubSeq(s, 1, 1) = " " THEN TrimStart(SubSeq(s, 2, Len(s))) ELSE s

RECURSIVE TrimEnd(_)
TrimEnd(s) ==
    IF Len(s) > 0 /\ SubSeq(s, Len(s), Len(s)) = " "
    THEN TrimEnd(SubSeq(s, 1, Len(s) - 1)) ELSE s

Trim(s) == TrimEnd(TrimStart(s))

\* headers as a function from names to values; Object.assign(headers, more)
Assign(headers, more) ==
    [n \in DOMAIN headers \cup DOMAIN more |->
        IF n \in DOMAIN more THEN more[n] ELSE headers[n]]

NoHeaders == [n \in {} |-> ""]

\* config.customHeaders: names a user can enter, each with the user's value
CustomNames == {"Content-Type", "Authorization", "x-api-key", "X-Trace"}
CustomHeaders ==
    {[n \in names |-> "custom"] :
        names \in {t \in SUBSET CustomNames : Cardinality(t) <= MaxHeaders}}

\* OpenAICompatibleAdapter.buildHeaders
OpenAIHeaders(config) ==
    LET base == [n \in {"Content-Type"} |-> "application/json"]
        auth == IF config.apiKey
                THEN Assign(base, [n \in {"Authorization"} |-> "Bearer key"])
                ELSE base
    IN  Assign(auth, config.customHeaders)

\* ClaudeAdapter.buildHeaders
ClaudeHeaders(config) ==
    LET base == [n \in {"Content-Type", "anthropic-version"} |->
                    IF n = "Content-Type" THEN "application/json" ELSE "2023-06-01"]
        auth == IF config.apiKey
                THEN Assign(base, [n \in {"x-api-key"} |-> "key"])
                ELSE base
    IN  Assign(auth, config.customHeaders)

\* GeminiAdapter.recognize: the headers literal of its fetch (the key
\* travels in the URL)
GeminiHeaders(config) == [n \in {"Content-Type"} |-> "application/json"]

BuildHeaders(config) ==
    CASE config.type = "gemini" -> GeminiHeaders(config)
      [] config.type = "claude" -> ClaudeHeaders(config)
      [] OTHER -> OpenAIHeaders(config)

\* a response body: choices (openai), candidates of parts (gemini) or the
\* content blocks (claude); an item is a text or something else (a tool
\* call, inline data, a null content)
RawTexts == {"", " 7 ", "AB3x"}
Items == {[type |-> "text", text |-> t] : t \in RawTexts}
            \cup {[type |-> "other", text |-> ""]}

Bodies(type) ==
    CASE type = "gemini" -> SeqsUpTo(SeqsUpTo(Items, MaxParts), MaxChoices)
      [] type = "claude" -> {<<b>> : b \in SeqsUpTo(Items, MaxParts)}
      [] OTHER -> SeqsUpTo({<<i>> : i \in Items}, MaxChoices)

\* x?.text?.trim() || ''
TextOf(item) == IF item.type = "text" THEN Trim(item.text) ELSE ""

AdapterOk(text) == [ok |-> TRUE, text |-> text, error |-> "null"]
AdapterFails(e) == [ok |-> FALSE, text |-> "", error |-> e]
TextOrEmptyResult(text) ==
    IF text = "" THEN AdapterFails("EmptyResult") ELSE AdapterOk(text)

\* OpenAICompatibleAdapter.recognize after response.json()
OpenAIParse(body) ==
    IF Len(body) = 0 THEN AdapterFails("EmptyResult")
    ELSE TextOrEmptyResult(TextOf(body[1][1]))

\* GeminiAdapter.recognize after response.json()
GeminiParse(body) ==
    IF Len(body) = 0 THEN AdapterFails("EmptyResult")
    ELSE IF Len(body[1]) = 0 THEN AdapterFails("EmptyResult")
    ELSE TextOrEmptyResult(TextOf(body[1][1]))

\* ClaudeAdapter.recognize after response.json(): content.find(type text)
ClaudeParse(body) ==
    LET content == body[1]
        texts == SelectSeq(content, LAMBDA c : c.type = "text")
    IN  IF Len(content) = 0 THEN AdapterFails("EmptyResult")
        ELSE IF Len(texts) = 0 THEN AdapterFails("EmptyResult")
        ELSE TextOrEmptyResult(TextOf(texts[1]))

Parse(type, body) ==
    CASE type = "gemini" -> GeminiParse(body)
      [] type = "claude" -> ClaudeParse(body)
      [] OTHER -> OpenAIParse(body)

NoExchange ==
    [pc |-> "none", type |-> "none", apiKey |-> FALSE, customHeaders |-> NoHeaders,
     headers |-> NoHeaders, httpOk |-> FALSE, body |-> <<>>, out |-> AdapterFails("null")]

\* adapter.recognize up to its fetch, for any configuration
adapter_fetch ==
    /\ exchange.pc \in {"none", "done"}
    /\ \E type \in ApiTypes, apiKey \in BOOLEAN, custom \in CustomHeaders :
         LET config == [type |-> type, apiKey |-> apiKey, customHeaders |-> custom]
         IN  exchange' = [NoExchange EXCEPT !.pc = "sent", !.type = type,
                            !.apiKey = apiKey, !.customHeaders = custom,
                            !.headers = BuildHeaders(config)]
    /\ UNCHANGED <<storedConfig, storedRetry, storedTimeout, lookup, stats, updates,
                   cacheVars, popupSeen, bgMsg, bgResp, adapters, recVars, late, tcVars, pageVars>>

\* the response arrives: not ok, or ok with any body
adapter_response ==
    /\ exchange.pc = "sent"
    /\ \/ exchange' = [exchange EXCEPT !.pc = "done", !.out = AdapterFails("Transport")]
       \/ \E body \in Bodies(exchange.type) :
            exchange' = [exchange EXCEPT !.pc = "done", !.httpOk = TRUE, !.body = body,
                           !.out = Parse(exchange.type, body)]
    /\ UNCHANGED <<storedConfig, storedRetry, storedTimeout, lookup, stats, updates,
                   cacheVars, popupSeen, bgMsg, bgResp, adapters, recVars, late, tcVars, pageVars>>

\* the coordinator at rest
CoordinatorIdle ==
    /\ exchange = NoExchange
    /\ bgMsg = NoMsg
    /\ bgResp = NoOutcome
    /\ adapters = {}
    /\ rpc = "idle"
    /\ attempt = 0
    /\ retryCount = [isNum |-> FALSE, n |-> 0]
    /\ lastError = "null"
    /\ error = "null"
    /\ outcome = NoOutcome
    /\ late = 0
    /\ getAdapterCalls = 0
    /\ adapterCalls = 0
    /\ results = <<>>
    /\ delays = <<>>
    /\ delaysElapsed = 0
    /\ statsUpdates = 0
    /\ historyAppends = 0
    /\ tpc = "idle"
    /\ tcCalls = 0
    /\ tcTimer = 0
    /\ tcOutcome = NoOutcome

BgIdle ==
    /\ CacheEmpty
    /\ lookup = NoLookup
    /\ stats = NoStats
    /\ updates = [i \in 1..MaxCalls |-> NoUpdate]
    /\ CoordinatorIdle

\* the page controller after construction
PageAtRest ==
    /\ popupSeen = FALSE
    /\ overlapResp = NoPageResp
    /\ picker = NoPicker
    /\ detectedCaptchas = <<>>
    /\ currentCaptcha = NoCaptcha
    /\ isProcessing = FALSE
    /\ pageReq = NoReq
    /\ pageResp = NoPageResp
    /\ ppc = "idle"
    /\ typed = -1
    /\ scanReturns = <<>>
    /\ elemState = "ok"
    /\ cap = NoCapture
    /\ fetches = 0
    /\ urlsCreated = 0
    /\ urlsRevoked = 0
    /\ fillRun = NoFill
    /\ events = <<>>
    /\ inputValue = ""

\* the page controller long after the page loaded
PageIdle ==
    /\ PageAtRest
    /\ loadPc = LoadDone

\* the steps of the coordinator on a recognizeCaptcha message
RecNext ==
    \/ handleRecognizeCaptcha
    \/ recognize_getActiveConfig
    \/ recognize_getSettings
    \/ adapter_resolves
    \/ adapter_rejects
    \/ timeout_fires
    \/ late_adapter_settles
    \/ delay_elapses
    \/ recognize_nextAttempt
    \/ updateStats_success
    \/ addHistory_success
    \/ updateStats_failure
    \/ addHistory_failure

BgNext ==
    \/ RecNext
    \/ handleTestConnection
    \/ testConnection_resolves
    \/ testConnection_rejects
    \/ testConnection_timeout

(***************************************************************************)
(* Spec: the coordinator alone, its requests posted by any sender.         *)
(***************************************************************************)
Init ==
    /\ storedConfig \in {"none"} \cup ApiTypes
    /\ storedRetry \in RetrySettings
    /\ storedTimeout \in UserTimeouts
    /\ BgIdle
    /\ doc = <<>>
    /\ impl = "bundle"
    /\ PageIdle

Next == BgNext \/ send_recognizeCaptcha \/ send_testConnection

Spec == Init /\ [][Next]_vars

(***************************************************************************)
(* InputSpec: findRelatedInput of either detector on a document of up to   *)
(* MaxInputs text inputs around one img under six ancestors.               *)
(***************************************************************************)
InputInit ==
    /\ storedConfig = "none"
    /\ storedRetry = [isNum |-> TRUE, n |-> 0]
    /\ storedTimeout = DefaultTimeoutMs
    /\ CoordinatorIdle
    /\ CacheEmpty
    /\ stats = NoStats
    /\ updates = [i \in 1..MaxCalls |-> NoUpdate]
    /\ lookup \in [impl : {"bundle", "module"}, inputs : SeqsUpTo(LookupInputs, MaxInputs),
                    called : {FALSE}, found : {0}]
    /\ doc = <<>>
    /\ impl = "bundle"
    /\ PageIdle

InputNext == findRelatedInput_call

InputSpec == InputInit /\ [][InputNext]_vars

(***************************************************************************)
(* AdapterSpec: one adapter of any configuration, any response.            *)
(***************************************************************************)
AdapterInit ==
    /\ storedConfig = "none"
    /\ storedRetry = [isNum |-> TRUE, n |-> 0]
    /\ storedTimeout = DefaultTimeoutMs
    /\ BgIdle
    /\ doc = <<>>
    /\ impl = "bundle"
    /\ PageIdle

AdapterNext == adapter_fetch \/ adapter_response

AdapterSpec == AdapterInit /\ [][AdapterNext]_vars

(***************************************************************************)
(* CacheSpec: recognize calls between edits of the stored configurations.  *)
(***************************************************************************)
CacheNext == updateApiConfig \/ setActiveConfigId \/ apiManager_recognize

CacheSpec == AdapterInit /\ [][CacheNext]_vars

(***************************************************************************)
(* StatsSpec: up to MaxCalls calls of updateStats, overlapping at will.    *)
(***************************************************************************)
StatsNext == updateStats_called \/ updateStats_getStats \/ updateStats_set

StatsSpec == AdapterInit /\ [][StatsNext]_vars

(***************************************************************************)
(* DetectorSpec: scan requests on a document drawn from the documents of   *)
(* up to MaxElems elements inside the size envelope, and from the          *)
(* documents of one arbitrary element, alone or before a corner element.   *)
(***************************************************************************)

\* the elements that pass the size and visibility tests
EnvelopeElements ==
    {e \in Elements : e.width = MinWidth /\ e.height = MaxHeight /\ e.shown /\ ~e.altKw}

\* shown, keyword-bearing elements at two opposite corners of the envelope
CornerElements ==
    {e \in Elements : /\ e.shown /\ e.kw /\ ~e.srcKw /\ ~e.altKw /\ ~e.parentKw
                      /\ e.input = 0
                      /\ \/ e.tag = "img" /\ e.width = MinWidth /\ e.height = MinHeight
                         \/ e.tag = "canvas" /\ e.width = MaxWidth /\ e.height = MaxHeight}

Docs ==
    SeqsUpTo(EnvelopeElements, MaxElems)
        \cup {<<e>> : e \in Elements}
        \cup {<<e, c>> : e \in Elements, c \in CornerElements}
        \cup FormDocs

DetectorInit ==
    /\ storedConfig = "none"
    /\ storedRetry = [isNum |-> TRUE, n |-> 1]
    /\ storedTimeout = DefaultTimeoutMs
    /\ BgIdle
    /\ doc \in Docs
    /\ impl = "bundle"
    /\ PageIdle

DetectorNext == popup_scan \/ handleScan

DetectorSpec == DetectorInit /\ [][DetectorNext]_vars

(***************************************************************************)
(* RuleSpec: site rules applied, and scans, on a document of up to         *)
(* MaxElems candidates-to-be.                                              *)
(***************************************************************************)
\* one candidate-to-be of each tag, with and without a linked input
LiveElements ==
    {e \in Elements : /\ e.width = MinWidth /\ e.height = MinHeight /\ e.shown
                      /\ e.kw /\ ~e.srcKw /\ ~e.altKw /\ ~e.parentKw}

RuleInit ==
    /\ storedConfig = "none"
    /\ storedRetry = [isNum |-> TRUE, n |-> 1]
    /\ storedTimeout = DefaultTimeoutMs
    /\ BgIdle
    /\ doc \in SeqsUpTo(LiveElements, MaxElems)
    /\ impl = "bundle"
    /\ PageIdle

RuleNext ==
    \/ popup_scan
    \/ handleScan
    \/ popup_applySiteRule
    \/ handleApplySiteRule
    \/ rule_imgLoaded
    \/ rule_imgError
    \/ rule_imgTimeout

RuleSpec == RuleInit /\ [][RuleNext]_vars

(***************************************************************************)
(* CaptureSpec: the requests that capture an element (recognize and        *)
(* preview), with the detector of the bundle or of the detector module,    *)
(* and the coordinator on the messages the page controller sends it.       *)
(***************************************************************************)
CaptureInit ==
    /\ storedConfig = "openai_compatible"
    /\ storedRetry = [isNum |-> TRUE, n |-> 2]
    /\ storedTimeout = DefaultTimeoutMs
    /\ BgIdle
    /\ doc \in SeqsUpTo(LiveElements, 1)
    /\ impl \in {"bundle", "module"}
    /\ PageIdle

CaptureNext ==
    \/ popup_scan
    \/ handleScan
    \/ popup_recognize
    \/ popup_preview
    \/ handleRecognize
    \/ handleRecognize_busy
    \/ element_changes
    \/ handleRecognize_capture
    \/ handlePreviewCaptcha
    \/ img_onload
    \/ img_onerror
    \/ img_loadTimeout
    \/ newImg_onload
    \/ newImg_onerror
    \/ svg_onload
    \/ svg_onerror
    \/ handleRecognize_response
    \/ RecNext

CaptureSpec == CaptureInit /\ [][CaptureNext]_vars

(***************************************************************************)
(* LoadSpec: a page from the moment init() armed its timer, with the      *)
(* popup's scan, applySiteRule and recognize requests arriving at any     *)
(* time.                                                                   *)
(***************************************************************************)
LoadInit ==
    /\ storedConfig = "openai_compatible"
    /\ storedRetry = [isNum |-> TRUE, n |-> 2]
    /\ storedTimeout = DefaultTimeoutMs
    /\ BgIdle
    /\ doc \in SeqsUpTo(LiveElements, 1)
    /\ impl = "bundle"
    /\ PageAtRest
    /\ loadPc = [LoadDone EXCEPT !.pc = "armed"]

LoadNext ==
    \/ init_timer
    \/ checkAndApplySiteRule
    \/ load_imgSettles
    \/ load_autoSolve
    \/ popup_scan
    \/ handleScan
    \/ popup_applySiteRule
    \/ handleApplySiteRule
    \/ rule_imgLoaded
    \/ rule_imgError
    \/ rule_imgTimeout
    \/ popup_recognize
    \/ handleRecognize
    \/ element_changes
    \/ handleRecognize_capture
    \/ img_onload
    \/ img_onerror
    \/ img_loadTimeout
    \/ svg_onload
    \/ svg_onerror
    \/ handleRecognize_response
    \/ RecNext

LoadSpec == LoadInit /\ [][LoadNext]_vars

(***************************************************************************)
(* PickerSpec: up to MaxSessions picker sessions on a page of one          *)
(* selectable element, with either picker.                                 *)
(***************************************************************************)
PickerInit ==
    /\ storedConfig = "none"
    /\ storedRetry = [isNum |-> TRUE, n |-> 0]
    /\ storedTimeout = DefaultTimeoutMs
    /\ BgIdle
    /\ doc \in {<<e>> : e \in LiveElements}
    /\ impl = "bundle"
    /\ popupSeen = FALSE
    /\ detectedCaptchas = <<>>
    /\ currentCaptcha = NoCaptcha
    /\ isProcessing = FALSE
    /\ pageReq = NoReq
    /\ pageResp = NoPageResp
    /\ ppc = "idle"
    /\ typed = -1
    /\ scanReturns = <<>>
    /\ elemState = "ok"
    /\ cap = NoCapture
    /\ fetches = 0
    /\ urlsCreated = 0
    /\ urlsRevoked = 0
    /\ fillRun = NoFill
    /\ events = <<>>
    /\ inputValue = ""
    /\ loadPc = LoadDone
    /\ overlapResp = NoPageResp
    /\ picker \in {[NoPicker EXCEPT !.impl = i] : i \in {"bundle", "module"}}

PickerNext ==
    \/ handleStartPicker
    \/ picker_mouseMove
    \/ picker_click
    \/ picker_escape
    \/ picker_ruleSaved

PickerSpec == PickerInit /\ [][PickerNext]_vars

(***************************************************************************)
(* FillSpec: fills of the input linked to the current candidate, asked     *)
(* for by the popup or by the site-rule automation, and calls of fill by   *)
(* an importer of the AutoFill module.                                     *)
(***************************************************************************)
FillInit ==
    /\ storedConfig = "none"
    /\ storedRetry = [isNum |-> TRUE, n |-> 1]
    /\ storedTimeout = DefaultTimeoutMs
    /\ BgIdle
    /\ doc \in SeqsUpTo({e \in LiveElements : e.tag = "img"}, 1)
    /\ impl = "bundle"
    /\ PageIdle

FillNext ==
    \/ popup_scan
    \/ handleScan
    \/ popup_fill
    \/ siteRule_fill
    \/ handleFill
    \/ call_fill
    \/ fill_delayElapses
    \/ fill_resultRead

FillSpec == FillInit /\ [][FillNext]_vars

(***************************************************************************)
(* LiveSpec: the page controller and the coordinator together, with the    *)
(* steps the platform guarantees: timers fire, storage calls complete,     *)
(* handlers and continuations run.  Network responses, image load and      *)
(* error events and new requests are not guaranteed.                       *)
(***************************************************************************)
LiveInit ==
    /\ storedConfig \in {"none", "openai_compatible"}
    /\ storedRetry \in RetrySettings
    /\ storedTimeout = DefaultTimeoutMs
    /\ BgIdle
    /\ doc \in SeqsUpTo(LiveElements, 1)
    /\ impl = "bundle"
    /\ PageIdle

PageNext ==
    \/ popup_scan
    \/ popup_recognize
    \/ popup_fill
    \/ handleScan
    \/ handleRecognize
    \/ element_changes
    \/ handleRecognize_capture
    \/ img_onload
    \/ img_onerror
    \/ img_loadTimeout
    \/ svg_onload
    \/ svg_onerror
    \/ handleRecognize_response
    \/ handleFill
    \/ fill_delayElapses
    \/ fill_resultRead

LiveNext == PageNext \/ BgNext \/ send_testConnection

Fairness ==
    /\ WF_vars(handleScan)
    /\ WF_vars(handleRecognize)
    /\ WF_vars(handleRecognize_capture)
    /\ WF_vars(img_loadTimeout)
    /\ WF_vars(handleRecognize_response)
    /\ WF_vars(handleFill)
    /\ WF_vars(fill_delayElapses)
    /\ WF_vars(handleRecognizeCaptcha)
    /\ WF_vars(recognize_getActiveConfig)
    /\ WF_vars(recognize_getSettings)
    /\ WF_vars(timeout_fires)
    /\ WF_vars(delay_elapses)
    /\ WF_vars(recognize_nextAttempt)
    /\ WF_vars(updateStats_success)
    /\ WF_vars(addHistory_success)
    /\ WF_vars(updateStats_failure)
    /\ WF_vars(addHistory_failure)
    /\ WF_vars(handleTestConnection)
    /\ WF_vars(testConnection_timeout)

LiveSpec == LiveInit /\ [][LiveNext]_vars /\ Fairness

(***************************************************************************)
(* Properties of ApiManager.recognize and ApiManager.testConnection.       *)
(***************************************************************************)
\* recognize() has returned to its caller
Returned == rpc = "done"

\* every awaited attempt of this call failed
AllAttemptsFailed == \A i \in 1..Len(results) : ~results[i].ok

\* the first k-1 attempts failed and attempt k succeeded
FirstSuccessAt(k) ==
    /\ k \in 1..Len(results)
    /\ results[k].ok
    /\ \A j \in 1..(k - 1) : ~results[j].ok

\* C1: recognize always resolves to a success or a failure outcome and never
\* rejects, for every adapter behaviour, every stored state and whether or
\* not a stats/history write fails.
C1_NeverRejects == Returned => outcome.kind \in {"success", "failure"}

\* C2: each top-level call of recognize makes exactly one stats update and
\* exactly one history append, on success and on terminal failure alike.
C2_ExactlyOneRecord == Returned => (statsUpdates = 1 /\ historyAppends = 1)

\* C3: with retryCount = N >= 1 and an adapter that always fails, recognize
\* calls the adapter exactly N times, waits N-1 times with the k-th wait
\* 1000ms * k, and returns a failure outcome carrying the last attempt's error.
C3_AlwaysFailingAdapter ==
    (Returned /\ retryCount.isNum /\ retryCount.n >= 1 /\ AllAttemptsFailed)
        => /\ adapterCalls = retryCount.n
           /\ Len(delays) = retryCount.n - 1
           /\ \A k \in 1..Len(delays) : delays[k] = 1000 * k
           /\ delaysElapsed = Len(delays)
           /\ outcome = FailureOutcome(results[Len(results)].val)

\* C4: when the adapter fails on attempts 1..k-1 and succeeds on attempt
\* k <= retryCount, recognize makes no adapter call after attempt k and
\* returns a success outcome with attempt = k and the text of attempt k.
C4_SuccessOnAttemptK ==
    \A k \in 1..MaxRetry + 1 :
        FirstSuccessAt(k)
            => /\ adapterCalls = k
               /\ Returned => outcome = SuccessOutcome(results[k].val, k)

\* C5: the attempts of one recognize call are strictly sequential: at most
\* one attempt is awaited at a time, and while attempt i+1 is awaited the
\* attempts before it are settled and every backoff wait begun has elapsed,
\* one wait between each two attempts.
C5_AttemptsSequential ==
    /\ adapterCalls <= Len(results) + 1
    /\ (adapterCalls = Len(results) + 1) <=> (rpc = "await")
    /\ rpc = "await" => /\ delaysElapsed = Len(delays)
                        /\ Len(delays) = adapterCalls - 1

\* C5 witness: a third attempt is awaited after two settled attempts and two
\* elapsed waits.
C5_Witness ==
    /\ rpc = "await"
    /\ adapterCalls = 3
    /\ Len(results) = 2
    /\ delaysElapsed = 2

\* C6: with no active configuration recognize fails at once: no adapter is
\* constructed or looked up, no adapter call, no retry, no backoff wait, and
\* the failure outcome carries the not-configured message.
C6_NotConfiguredFailsAtOnce ==
    (Returned /\ storedConfig = "none")
        => /\ getAdapterCalls = 0
           /\ adapterCalls = 0
           /\ delays = <<>>
           /\ outcome = FailureOutcome("NotConfigured")

\* C8: testConnection calls the adapter's testConnection at most once, under
\* a 30000ms timeout whatever the user-configured timeout is, begins no
\* backoff wait, and settles with an outcome value, never a rejection.
C8_TestConnectionSingleShot ==
    /\ tcCalls <= 1
    /\ tcTimer \in {0, 30000}
    /\ tpc = "await" => (tcCalls = 1 /\ tcTimer = 30000)
    /\ tpc # "idle" => (delays = <<>> /\ adapterCalls = 0)
    /\ tpc = "done" => tcOutcome.kind \in {"success", "failure"}

\* C8 witness: a connection test that ran into its timeout while the user's
\* own timeout is another value.
C8_Witness ==
    /\ tpc = "done"
    /\ tcCalls = 1
    /\ tcOutcome = FailureOutcome("Timeout")
    /\ storedTimeout # 30000


(***************************************************************************)
(* Properties of the page controller and of the detector                   *)
(***************************************************************************)
\* C7: every scan, recognize, fill and test-connection request eventually
\* receives a response, provided timers fire: no request hangs, whatever the
\* provider, the raster image and the rasterized vector graphic do
C7_EveryRequestAnswered ==
    /\ (pageReq.action # "none") ~> (pageResp.kind # "none")
    /\ (bgMsg.action = "testConnection") ~> (bgResp.kind # "none")

Scanned == pageResp.kind = "ok" /\ pageResp.detail = "scan"

\* C9: getMostLikelyCaptcha returns none when the last scan found nothing;
\* otherwise it returns a candidate of the last scan whose confidence no
\* other candidate exceeds and that no earlier candidate equals
C9_MostLikelyIsFirstMaximum ==
    /\ Scanned => pageResp.best = currentCaptcha.id
    /\ IF detectedCaptchas = <<>>
       THEN currentCaptcha = NoCaptcha
       ELSE \E i \in 1..Len(detectedCaptchas) :
              /\ currentCaptcha = detectedCaptchas[i]
              /\ \A j \in 1..Len(detectedCaptchas) :
                    detectedCaptchas[j].confidence <= detectedCaptchas[i].confidence
              /\ \A j \in 1..(i - 1) :
                    detectedCaptchas[j].confidence < detectedCaptchas[i].confidence

\* a scan found two candidates of equal confidence and the first was chosen
C9_Witness ==
    /\ Scanned
    /\ Len(detectedCaptchas) = 2
    /\ detectedCaptchas[1].confidence = detectedCaptchas[2].confidence
    /\ currentCaptcha = detectedCaptchas[1]
    /\ currentCaptcha # detectedCaptchas[2]

\* C10: a scan returns no candidate narrower than 50, wider than 300,
\* shorter than 20 or taller than 100 px, whatever its signals, and it
\* does return a shown, keyword-bearing element of width 50 or 300 and of
\* height 20 or 100
C10_SizeEnvelope ==
    /\ \A i \in 1..Len(detectedCaptchas) :
          /\ detectedCaptchas[i].width >= 50 /\ detectedCaptchas[i].width <= 300
          /\ detectedCaptchas[i].height >= 20 /\ detectedCaptchas[i].height <= 100
    /\ Scanned =>
          \A j \in 1..Len(doc) :
             (/\ doc[j].shown /\ doc[j].kw
              /\ doc[j].width \in {50, 300} /\ doc[j].height \in {20, 100})
                => \E i \in 1..Len(detectedCaptchas) : detectedCaptchas[i].element = j

\* a scan of an element one pixel too wide that carries every signal,
\* followed by an element on the limits: only the second is a candidate
C10_Witness ==
    /\ Scanned
    /\ Len(doc) = 2
    /\ doc[1].width = 301 /\ doc[1].height = 20 /\ doc[1].shown
    /\ doc[1].kw /\ doc[1].srcKw /\ doc[1].parentKw /\ doc[1].input = 1
    /\ doc[2].width = 50 /\ doc[2].height = 20
    /\ Len(detectedCaptchas) = 1
    /\ detectedCaptchas[1].element = 2


\* the sum of the weights of the signals that hold for an element
SignalSum(el) ==
    (IF el.kw THEN 30 ELSE 0) + (IF el.srcKw THEN 20 ELSE 0)
        + (IF el.parentKw THEN 15 ELSE 0) + (IF el.input # 0 THEN 25 ELSE 0)
        + (IF el.width >= 50 /\ el.width <= 300 /\ el.height >= 20
                /\ el.height <= 100 THEN 10 ELSE 0)

\* C11: on an unchanged document two consecutive scans return the same
\* candidates in the same order, with the same ids, linked inputs and
\* confidence; a scan returns no candidate twice, and each confidence is an
\* integer in [0,100], the sum of the weights of the signals that hold
C11_ScanIdempotent ==
    /\ Len(scanReturns) = 2 => scanReturns[1] = scanReturns[2]
    /\ \A n \in 1..Len(scanReturns) :
          LET r == scanReturns[n]
          IN /\ \A i, j \in 1..Len(r) : r[i].id = r[j].id => i = j
             /\ \A i \in 1..Len(r) :
                   /\ r[i].confidence \in 0..100
                   /\ r[i].confidence = SignalSum(doc[r[i].element])
                   /\ r[i].inputElement = doc[r[i].element].input

\* a second scan of a document with two candidates of different confidence
C11_Witness ==
    /\ Len(scanReturns) = 2
    /\ Len(scanReturns[2]) = 2
    /\ scanReturns[2][1].confidence = 100
    /\ scanReturns[2][2].confidence = 35
    /\ detectedCaptchas = scanReturns[2]


\* the document of the scenario: a visible 120x40 img with id captchaImg
\* and src https://example.com/cap.png, no ancestor matching a keyword,
\* 10 px left of a text input named vcode
ScenarioDoc ==
    <<ReadElement(FormImg("captchaImg", "https://example.com/cap.png", "field"),
                  <<FormInput("vcode", 10, 2)>>)>>

\* C12 as stated: the scan of the scenario document returns exactly one
\* candidate, of kind image, with confidence >= 85, linked to that input
C12_ScenarioAtLeast85 ==
    (Scanned /\ doc = ScenarioDoc)
        => /\ Len(detectedCaptchas) = 1
           /\ detectedCaptchas[1].type = "image"
           /\ detectedCaptchas[1].confidence >= 85
           /\ detectedCaptchas[1].inputElement = 1

\* C12 amended: the scan of the scenario document returns exactly one
\* candidate, of kind image, linked to that input, with confidence 65:
\* 30 for the id, 25 for the linked input, 10 for the size
C12_ScenarioIs65 ==
    (Scanned /\ doc = ScenarioDoc)
        => /\ Len(detectedCaptchas) = 1
           /\ detectedCaptchas[1].type = "image"
           /\ detectedCaptchas[1].confidence = 65
           /\ detectedCaptchas[1].inputElement = 1

\* the scenario document was scanned
C12_Witness ==
    /\ Scanned
    /\ doc = ScenarioDoc
    /\ doc[1].kw /\ ~doc[1].srcKw /\ ~doc[1].parentKw /\ doc[1].input = 1
    /\ Len(detectedCaptchas) = 1


RuleAnswered == pageReq.action = "applySiteRule" /\ pageResp'.kind # "none"

\* what a successful applySiteRule leaves: a response naming the
\* candidate, of confidence 100 and of the kind of its tag, which is the
\* current candidate and the only entry of the list
RuleApplied ==
    LET tag == TagOfTarget(doc, pageReq.target)
    IN /\ pageResp'.kind = "ok"
       /\ pageResp'.best = currentCaptcha'.id
       /\ currentCaptcha'.element = pageReq.target
       /\ currentCaptcha'.confidence = 100
       /\ currentCaptcha'.type = (IF tag = "img" THEN "image"
                                  ELSE IF tag = "canvas" THEN "canvas" ELSE "svg")
       /\ detectedCaptchas' = <<currentCaptcha'>>

RuleRefused ==
    /\ pageResp'.kind = "error"
    /\ UNCHANGED <<currentCaptcha, detectedCaptchas>>

C14_NoPayloadOfUnrenderedElement ==
    /\ cap.elem \in {"detached", "zeroArea"} => cap.result \in {"pending", "error"}
    /\ cap.result = "payload" => cap.type \in {"image", "canvas", "svg"}

\* C15: no recognizeCaptcha message is in flight to the coordinator, and no
\* adapter is called, with a payload shorter than MinImageDataLength; a
\* recognize request whose capture gives such a payload is answered with
\* the invalid-capture error and sends nothing
C15_NoShortPayloadLeavesThePage ==
    [][/\ bgMsg'.action = "recognizeCaptcha" => bgMsg'.imageLen >= MinImageDataLength
       /\ adapterCalls' > adapterCalls =>
             /\ cap'.for = "recognize" /\ cap'.result = "payload"
             /\ cap'.len >= MinImageDataLength
       /\ (/\ cap.result # "payload" /\ cap'.result = "payload"
           /\ cap'.for = "recognize" /\ cap'.len < MinImageDataLength) =>
             /\ pageResp' = PageError("InvalidImageData")
             /\ bgMsg' = NoMsg
             /\ adapterCalls' = adapterCalls]_vars

\* a recognize request captured a string of 99 characters from an img
\* with a data URI as src, and was refused
C15_Witness ==
    /\ cap.for = "recognize"
    /\ cap.result = "payload"
    /\ cap.from = "src"
    /\ cap.len = MinImageDataLength - 1
    /\ pageResp = PageError("InvalidImageData")
    /\ bgMsg = NoMsg
    /\ rpc = "idle"

\* C16: the capture of an img, by the captureImgElement of the bundle and
\* by that of the detector module, never requests the source of the image
\* from the network
C16_CaptureNeverFetches == fetches = 0

\* C17: when the captureImgElement of the bundle has drawn an img that
\* taints the canvas, so that toDataURL throws, the capture gives the src
\* verbatim if the src is a data URI and fails with the cross-origin error
\* if not; it gives no blank string and nothing drawn on a canvas
C17_TaintFallsBackToSrcOrFails ==
    (/\ impl = "bundle" /\ cap.type = "image"
     /\ cap.tainted /\ ~cap.naturalZero
     /\ cap.result \in {"payload", "error"}
     /\ cap.err \notin {"ImageLoadFailed", "ImageLoadTimeout"}) =>
        IF cap.srcData
        THEN cap.result = "payload" /\ cap.from = "src"
        ELSE cap.result = "error" /\ cap.err = "CrossOriginCapture"

\* a recognize request on a loaded cross-origin img with an http source
\* ended with the cross-origin capture error
C17_Witness ==
    /\ impl = "bundle" /\ cap.type = "image" /\ cap.for = "recognize"
    /\ cap.tainted /\ ~cap.srcData /\ ~cap.naturalZero
    /\ cap.result = "error"
    /\ pageResp = PageError("CrossOriginCapture")

\* C18: an object URL made by captureSvgElement is revoked once, and no
\* later than the capture ends: by a resolve, by a reject, or by an
\* exception that leaves the load handler
C18_ObjectUrlReleased ==
    /\ urlsRevoked <= urlsCreated
    /\ (/\ cap.type = "svg"
        /\ cap.result \in {"payload", "error"} \/ ppc = "svgHung") =>
          urlsRevoked = urlsCreated

(***************************************************************************)
(* Properties of AutoFill.fill.                                            *)
(***************************************************************************)
\* what the typing of a text must do to the input after the clear: for each
\* character in order keydown, the append, input, keyup
RECURSIVE ExpectedTyping(_)
ExpectedTyping(text) ==
    IF Len(text) = 0 THEN <<>>
    ELSE LET c == SubSeq(text, 1, 1)
         IN <<[type |-> "keydown", key |-> c], [type |-> "append", key |-> c],
              [type |-> "input", key |-> ""], [type |-> "keyup", key |-> c]>>
            \o ExpectedTyping(SubSeq(text, 2, Len(text)))

\* from the clearing of the input to the blur
ExpectedFill(text) ==
    <<[type |-> "clear", key |-> ""], [type |-> "input", key |-> ""]>>
    \o ExpectedTyping(text)
    \o <<[type |-> "change", key |-> ""], [type |-> "blur", key |-> ""]>>

\* an event dispatched on the input, or a write of its value
OnInput(e) ==
    e.type \in {"clear", "set", "append", "input", "keydown", "keypress",
                "keyup", "change", "blur"}

\* the Enter key of submitForm
EnterKeys ==
    <<[type |-> "keydown", key |-> "Enter"], [type |-> "keypress", key |-> "Enter"],
      [type |-> "keyup", key |-> "Enter"]>>

ExpectedSubmit(run) ==
    CASE run.page = "form" ->
           <<[type |-> "submit", key |-> ""], [type |-> "form.submit", key |-> ""]>>
      [] run.page = "formCancels" -> <<[type |-> "submit", key |-> ""]>>
      [] run.page = "button" -> <<[type |-> "click", key |-> ""]>>
      [] OTHER -> IF run.caller = "importer" THEN <<>> ELSE EnterKeys

\* all that a fill which completes does, in order: focus, the clear, the
\* typing or the direct set, the highlight and the optional submit
ExpectedSteps(run) ==
    <<[type |-> "focus", key |-> ""]>>
    \o (IF run.simulate THEN ExpectedFill(run.text)
        ELSE <<[type |-> "clear", key |-> ""], [type |-> "input", key |-> ""],
               [type |-> "set", key |-> run.text], [type |-> "input", key |-> ""],
               [type |-> "change", key |-> ""]>>)
    \o <<[type |-> "highlight", key |-> ""]>>
    \o (IF ~run.autoSubmit THEN <<>>
        ELSE IF run.confirm = "none" THEN ExpectedSubmit(run)
        ELSE <<[type |-> "confirm", key |-> run.confirm]>>
             \o (IF run.confirm = "yes" THEN ExpectedSubmit(run) ELSE <<>>))

IsStrictPrefix(a, b) == Len(a) < Len(b) /\ a = SubSeq(b, 1, Len(a))

SubmitOp(e) ==
    e.type \in {"submit", "form.submit", "click"} \/ e.key = "Enter"

\* C21: a fill with autoSubmit on that completed took exactly one submit
\* path: with a form the submit event, and form.submit() iff the event was
\* not cancelled; without a form the click on a submit control; without
\* both keydown, keypress, keyup of Enter on the input
C21_OneSubmitPath ==
    (fillRun.ret = "true" /\ fillRun.autoSubmit) =>
        SelectSeq(events, SubmitOp) =
            CASE fillRun.page = "form" ->
                   <<[type |-> "submit", key |-> ""],
                     [type |-> "form.submit", key |-> ""]>>
              [] fillRun.page = "formCancels" -> <<[type |-> "submit", key |-> ""]>>
              [] fillRun.page = "button" -> <<[type |-> "click", key |-> ""]>>
              [] OTHER -> EnterKeys


\* every item of a response body, in the order of the response
RECURSIVE AllItems(_)
AllItems(body) ==
    IF Len(body) = 0 THEN <<>> ELSE body[1] \o AllItems(Tail(body))

NonEmptyTexts(body) ==
    SelectSeq(AllItems(body), LAMBDA i : i.type = "text" /\ Trim(i.text) # "")

\* C22: on a successful HTTP response an adapter returns the first
\* non-empty text found anywhere in the response (across choices, candidate
\* parts or content blocks) and fails with the empty-result error only when
\* the response holds no non-empty text at all.
C22_FirstNonEmptyTextReturned ==
    (exchange.pc = "done" /\ exchange.httpOk) =>
        IF Len(NonEmptyTexts(exchange.body)) = 0
        THEN ~exchange.out.ok /\ exchange.out.error = "EmptyResult"
        ELSE /\ exchange.out.ok
             /\ exchange.out.text = Trim(NonEmptyTexts(exchange.body)[1].text)

\* the headers an adapter sets by itself
OwnHeaders(type, apiKey) ==
    CASE type = "claude" ->
            [n \in {"Content-Type", "anthropic-version"} \cup
                    (IF apiKey THEN {"x-api-key"} ELSE {}) |->
                CASE n = "Content-Type" -> "application/json"
                  [] n = "anthropic-version" -> "2023-06-01"
                  [] OTHER -> "key"]
      [] type = "gemini" -> [n \in {"Content-Type"} |-> "application/json"]
      [] OTHER ->
            [n \in {"Content-Type"} \cup (IF apiKey THEN {"Authorization"} ELSE {}) |->
                IF n = "Content-Type" THEN "application/json" ELSE "Bearer key"]

\* C23: the headers of every request are the adapter's own headers merged
\* with the configuration's custom headers: every custom header is sent
\* with the user's value, every other own header with the adapter's value.
C23_CustomHeadersMerged ==
    exchange.pc # "none" =>
        /\ DOMAIN exchange.headers =
                DOMAIN OwnHeaders(exchange.type, exchange.apiKey)
                    \cup DOMAIN exchange.customHeaders
        /\ \A n \in DOMAIN exchange.headers :
                exchange.headers[n] =
                    IF n \in DOMAIN exchange.customHeaders
                    THEN exchange.customHeaders[n]
                    ELSE OwnHeaders(exchange.type, exchange.apiKey)[n]


\* C24: the content script works only on a message the popup triggered:
\* until the first such message has arrived no scan has run, no site rule
\* was applied (no candidate list, no current candidate) and no recognition
\* was asked for of the page controller or of the coordinator.
C24_NothingBeforePopupMessage ==
    ~popupSeen =>
        /\ scanReturns = <<>>
        /\ detectedCaptchas = <<>>
        /\ currentCaptcha = NoCaptcha
        /\ pageReq.action = "none"
        /\ ~isProcessing
        /\ bgMsg.action = "none"


\* the three tiers of the search for the input of an element, each the
\* first hit in document order (0: none)
TierAncestors(node, inputs) ==
    LET hit(d) == {i \in 1..Len(inputs) :
                     inputs[i].depth <= d /\ isCaptchaInputByName(inputs[i])}
        levels == {d \in 1..5 : d <= Len(node.ancestors) /\ hit(d) # {}}
    IN IF levels = {} THEN 0 ELSE Least(hit(Least(levels)))

TierNamedNearby(node, inputs) ==
    LET hits == {i \in 1..Len(inputs) :
                    /\ isCaptchaInputByName(inputs[i])
                    /\ Abs(inputs[i].top - node.top)
                         + Abs(inputs[i].left - (node.left + node.width)) < 200}
    IN IF hits = {} THEN 0 ELSE Least(hits)

TierPosition(node, inputs) ==
    LET right == node.left + node.width
        bottom == node.top + node.height
        hits == {i \in 1..Len(inputs) :
                    \/ /\ inputs[i].left > right
                       /\ inputs[i].left - right < 150
                       /\ Abs(inputs[i].top - node.top) < 50
                    \/ /\ inputs[i].top > bottom
                       /\ inputs[i].top - bottom < 100
                       /\ Abs(inputs[i].left - node.left) < 100}
    IN IF hits = {} THEN 0 ELSE Least(hits)

\* C25: findRelatedInput of either detector returns the hit of the first of
\* three tiers that has one: a keyword-named input inside up to 5 ancestors,
\* then a keyword-named input anywhere whose offsets add up to less than
\* 200 px, then any input right of or below the element; null if none.
C25_ThreeTiersInOrder ==
    lookup.called =>
        lookup.found =
            IF TierAncestors(LookupNode, lookup.inputs) # 0
            THEN TierAncestors(LookupNode, lookup.inputs)
            ELSE IF TierNamedNearby(LookupNode, lookup.inputs) # 0
            THEN TierNamedNearby(LookupNode, lookup.inputs)
            ELSE TierPosition(LookupNode, lookup.inputs)

\* the same of the detector module alone
C25_ModuleThreeTiers == lookup.impl = "module" => C25_ThreeTiersInOrder


\* C26: every picker session ends by one call of its completion callback:
\* with success for a click on the page while a selectable element is
\* hovered, with cancelled for ESC or the cancel button; a session that got
\* its call has its listeners removed and gets no second call; and the
\* content script answers a successful startPicker only once the site rule
\* is saved.
C26_SessionCompletesOnce ==
    \A i \in 1..Len(picker.sessions) :
        LET s == picker.sessions[i]
        IN  /\ s.calls <= 1
            /\ ~s.active => s.calls = 1
            /\ s.calls = 1 => ~s.active
            /\ s.result = "success" => s.gesture = "click"
            /\ s.gesture \in {"escape", "cancelButton"} =>
                    (~s.active /\ s.result = "cancelled")
            /\ (s.responded /\ s.result = "success") => s.saved = "done"

\* what of it holds of initElementPicker: one call exactly when the session
\* has ended, never two
C26_BundleOneCallAtEnd ==
    picker.impl = "bundle" =>
        \A i \in 1..Len(picker.sessions) :
            /\ picker.sessions[i].calls <= 1
            /\ picker.sessions[i].active <=> picker.sessions[i].calls = 0

\* what fails of the picker module: an ended session has its call
C26_ModuleCallsBack ==
    picker.impl = "module" =>
        \A i \in 1..Len(picker.sessions) :
            ~picker.sessions[i].active => picker.sessions[i].calls = 1


\* C27: isProcessing returns to false after every recognition: whenever it
\* is set, it is cleared later.
C27_ProcessingEnds == isProcessing ~> ~isProcessing

\* isProcessing is set exactly while handleRecognize is past its start and
\* has not answered
C27_ProcessingIffInFlight ==
    isProcessing <=> (pageReq.action = "recognize" /\ ppc # "idle")

\* a recognize message that arrives meanwhile is answered busy, and the
\* step that answers it starts no capture, sends the coordinator nothing
\* and leaves the current candidate and the recognition in progress alone
C27_BusyChangesNothing ==
    [][(overlapResp' # overlapResp /\ overlapResp' # NoPageResp) =>
          /\ overlapResp' = PageError("Busy")
          /\ UNCHANGED <<currentCaptcha, cap, bgMsg, isProcessing, pageReq, pageResp, ppc>>]_vars

C27_BusyWitness == overlapResp = PageError("Busy") /\ isProcessing


\* C28: however the scan of the page load interleaves with the popup's
\* requests, the current candidate is absent or its id is the id of an entry
\* of the detector's list, so that a recognize request naming it finds it.
C28_CurrentCandidateListed ==
    \/ currentCaptcha = NoCaptcha
    \/ FindById(detectedCaptchas, currentCaptcha.id, 1) # NoCaptcha


\* the calls of updateStats that have written, and those of them that
\* reported a success
Written == {i \in 1..MaxCalls : updates[i].pc = "done"}
WrittenOk == {i \in Written : updates[i].success}

\* C29: after any set of recognize calls, overlapping or not, the stored
\* totalRequests is successCount + failCount and the three counters are
\* the numbers of calls that completed, succeeded and failed.
C29_NoUpdateLost ==
    /\ stats.totalRequests = stats.successCount + stats.failCount
    /\ (\A i \in 1..MaxCalls : updates[i].pc \in {"idle", "done"}) =>
          /\ stats.totalRequests = Cardinality(Written)
          /\ stats.successCount = Cardinality(WrittenOk)
          /\ stats.failCount = Cardinality(Written \ WrittenOk)

\* the part of it that holds: the total is the sum of the two
C29_TotalIsSum == stats.totalRequests = stats.successCount + stats.failCount


\* C30: the adapter a recognize call invokes agrees with the active
\* configuration that call resolved: same provider family, same content
\* (endpoint, model, credential, generation parameters).
C30_AdapterAgreesWithConfig ==
    invoked.called => invoked.adapter = invoked.config

\* the part of it that holds: the adapter is the one of the resolved id
C30_AdapterOfResolvedId ==
    invoked.called => invoked.adapter.id = invoked.config.id

====
